---- MODULE Spec2Model ----
(***************************************************************************)
(* Model of the dns-tools decoding library: the 12-byte header codec       *)
(* (lib/src/message/header.rs), the label grammar and domain model         *)
(* (lib/src/domain/name.rs) and the compression-aware question decoder     *)
(* (lib/src/message/question.rs).                                          *)
(*                                                                         *)
(* Byte buffers are sequences of integers in 0..255.  Rust indexes from 0, *)
(* TLA+ sequences from 1: At(b, i) is the Rust expression b[i].            *)
(***************************************************************************)
EXTENDS Integers, Sequences, FiniteSets, TLC

VARIABLES
    value,              \* Header::try_from: the input slice
    header_result,      \* Header::try_from: the returned Result
    flags,              \* OpCode/Z/RCode::try_from, QR::from: the u16 input
    op_code_result,     \* OpCode::try_from(flags)
    z_result,           \* Z::try_from(flags)
    r_code_result,      \* RCode::try_from(flags)
    qr_result,          \* QR::from(flags)
    message_bytes,      \* parse_question: the message buffer
    offset,             \* parse_question: the offset argument
    question_pos,       \* parse_question: local question_pos
    using_compression,  \* parse_question: local using_compression
    bytes_read,         \* parse_question: local bytes_read
    q_name,             \* parse_question: local q_name (the labels of the Domain)
    pos,                \* parse_question: local pos
    pc,                 \* parse_question: "name" in the loop, "fields" after it, "done"
    result,             \* parse_question: the returned Result, or the panic
    layout,             \* the questions the sender laid out in message_bytes
    cursor,             \* the caller's cursor into message_bytes
    decoded,            \* the questions the caller decoded so far
    domain_value,       \* Domain::try_from: the input string or byte slice
    domain_result,      \* Domain::try_from: the returned Result
    rendered,           \* Domain::to_string() of a returned Domain
    label_bytes,        \* parse_label, bytes_are_label, bytes_are_ldh_str: input
    label_result,       \* parse_label(label_bytes)
    is_label_result,    \* bytes_are_label(label_bytes)
    is_ldh_result,      \* bytes_are_ldh_str(label_bytes)
    raw_value,          \* QType::new, QClass::new: the u16 input
    known_type_result,  \* QType::new(raw_value).to_known_type()
    known_class_result, \* QClass::new(raw_value).to_known_class()
    q_type_back,        \* QType::from(k) of the known type k
    q_class_back,       \* QClass::from(k) of the known class k
    iterations,         \* parse_question: loop iterations begun so far
    followed,           \* parse_question: positions of the pointers followed
    revisited,          \* parse_question: a pointer was followed a second time
    buffers,            \* concurrent calls: the input buffers they borrow
    calls               \* concurrent calls: each call's arguments and locals

header_vars == <<value, header_result>>
flag_vars == <<flags, op_code_result, z_result, r_code_result, qr_result>>
call_vars == <<question_pos, using_compression, bytes_read, q_name, pos, pc, result>>
caller_vars == <<layout, cursor, decoded>>
question_vars == <<message_bytes, offset, call_vars, caller_vars>>
domain_vars == <<domain_value, domain_result, rendered>>
label_vars == <<label_bytes, label_result, is_label_result, is_ldh_result>>
kind_vars ==
    <<raw_value, known_type_result, known_class_result, q_type_back, q_class_back>>
codec_vars == <<domain_vars, label_vars, kind_vars>>
walk_vars == <<iterations, followed, revisited>>
interleaving_vars == <<buffers, calls>>
run_vars == <<walk_vars, interleaving_vars>>
vars == <<header_vars, flag_vars, question_vars, codec_vars, run_vars>>

(***************************************************************************)
(* Results.                                                                *)
(***************************************************************************)
None == [tag |-> "None"]
Some(v) == [tag |-> "Some", val |-> v]
\* a call that has not been made yet
NotCalled == [tag |-> "NotCalled"]
Ok(v) == [tag |-> "Ok", val |-> v]
Err(e) == [tag |-> "Err", error |-> e]

At(b, i) == b[i + 1]

\* u16::from_be_bytes([hi, lo])
from_be_bytes(hi, lo) == hi * 256 + lo

(***************************************************************************)
(* Header codec.                                                           *)
(***************************************************************************)
HEADER_BYTES == 12

\* enum discriminants
QRNumber(qr) == CASE qr = "Query" -> 0 [] qr = "Response" -> 1

OpCodeNumber(op) ==
    CASE op = "Query" -> 0 [] op = "InverseQuery" -> 1 [] op = "Status" -> 2

RCodeNumber(rc) ==
    CASE rc = "NoError" -> 0
      [] rc = "FormatError" -> 1
      [] rc = "ServerFailure" -> 2
      [] rc = "NameError" -> 3
      [] rc = "NotImplemented" -> 4
      [] rc = "Refused" -> 5

\* (value & 0b0_0000_1_0_0_0_000_0000) >> 10 == 1
parse_aa_flag(v) == (v \div 1024) % 2 = 1

parse_tc_flag_copied(v) == (v \div 1024) % 2 = 1
\* (value & 0b0_0000_0_1_0_0_000_0000) >> 9 == 1
parse_tc_flag(v) == (v \div 512) % 2 = 1

\* (value & 0b0_0000_0_0_1_0_000_0000) >> 8 == 1
parse_rd_flag(v) == (v \div 256) % 2 = 1

\* (value & 0b0_0000_0_0_0_1_000_0000) >> 7 == 1
parse_ra_flag(v) == (v \div 128) % 2 = 1

QR_from_bit_14(v) == IF (v \div 16384) % 2 = 0 THEN "Query" ELSE "Response"
\* match value & 0b1_0000_0_0_0_0_000_0000 == 0
QR_from(v) == IF (v \div 32768) % 2 = 0 THEN "Query" ELSE "Response"

OpCode_try_from_whole_word(v) ==
    LET field == (v \div 2048) % 16 IN
    CASE field = 0 -> Ok("Query")
      [] field = 1 -> Ok("InverseQuery")
      [] field = 2 -> Ok("Status")
      [] OTHER -> Err([kind |-> "OpCodeTryFromError", unsupported |-> v])
\* match (value & 0b0_1111_0_0_0_0_000_0000) >> 11
OpCode_try_from(v) ==
    LET field == (v \div 2048) % 16 IN
    CASE field = 0 -> Ok("Query")
      [] field = 1 -> Ok("InverseQuery")
      [] field = 2 -> Ok("Status")
      [] OTHER -> Err([kind |-> "OpCodeTryFromError", unsupported |-> field])

Z_try_from_lenient(v) == Ok("AllZeros")
\* match (value & 0b0_0000_0_0_0_0_111_0000) >> 4
Z_try_from(v) ==
    LET field == (v \div 16) % 8 IN
    IF field = 0 THEN Ok("AllZeros") ELSE Err([kind |-> "ZTryFromError"])

\* match value & 0b0_0000_0_0_0_0_000_1111
RCode_try_from(v) ==
    LET field == v % 16 IN
    CASE field = 0 -> Ok("NoError")
      [] field = 1 -> Ok("FormatError")
      [] field = 2 -> Ok("ServerFailure")
      [] field = 3 -> Ok("NameError")
      [] field = 4 -> Ok("NotImplemented")
      [] field = 5 -> Ok("Refused")
      [] OTHER -> Err([kind |-> "RCodeTryFromError", unsupported |-> field])

\* impl From<OpCodeTryFromError | ZTryFromError | RCodeTryFromError> for
\* HeaderTryFromError: the wrapper variant is named after the wrapped error.
HeaderTryFromError_from(r) == Err([kind |-> r.error.kind, source |-> r.error])

\* The body of Header::try_from once the three flag fields decoded.
HeaderOf(b, w, op_code, z, r_code) ==
    [id |-> from_be_bytes(At(b, 0), At(b, 1)),
     qr |-> QR_from(w),
     op_code |-> op_code,
     aa |-> parse_aa_flag(w),
     tc |-> parse_tc_flag(w),
     rd |-> parse_rd_flag(w),
     ra |-> parse_ra_flag(w),
     z |-> z,
     r_code |-> r_code,
     qd_count |-> from_be_bytes(At(b, 4), At(b, 5)),
     an_count |-> from_be_bytes(At(b, 6), At(b, 7)),
     ns_count |-> from_be_bytes(At(b, 8), At(b, 9)),
     ar_count |-> from_be_bytes(At(b, 10), At(b, 11))]

Header_try_from_z_first(b) ==
    IF Len(b) < HEADER_BYTES
    THEN Err([kind |-> "InsufficientHeaderBytes", len |-> Len(b)])
    ELSE LET w == from_be_bytes(At(b, 2), At(b, 3))
             op_code == OpCode_try_from(w)
             z == Z_try_from(w)
             r_code == RCode_try_from(w)
         IN  IF z.tag = "Err" THEN HeaderTryFromError_from(z)
             ELSE IF op_code.tag = "Err" THEN HeaderTryFromError_from(op_code)
             ELSE IF r_code.tag = "Err" THEN HeaderTryFromError_from(r_code)
             ELSE Ok(HeaderOf(b, w, op_code.val, z.val, r_code.val))
Header_try_from_fixed_len(b) ==
    IF Len(b) < HEADER_BYTES
    THEN Err([kind |-> "InsufficientHeaderBytes", len |-> HEADER_BYTES])
    ELSE LET w == from_be_bytes(At(b, 2), At(b, 3))
             op_code == OpCode_try_from(w)
             z == Z_try_from(w)
             r_code == RCode_try_from(w)
         IN  IF op_code.tag = "Err" THEN HeaderTryFromError_from(op_code)
             ELSE IF z.tag = "Err" THEN HeaderTryFromError_from(z)
             ELSE IF r_code.tag = "Err" THEN HeaderTryFromError_from(r_code)
             ELSE Ok(HeaderOf(b, w, op_code.val, z.val, r_code.val))
\* impl TryFrom<&[u8]> for Header
Header_try_from(b) ==
    IF Len(b) < HEADER_BYTES
    THEN Err([kind |-> "InsufficientHeaderBytes", len |-> Len(b)])
    ELSE LET w == from_be_bytes(At(b, 2), At(b, 3))
             op_code == OpCode_try_from(w)
             z == Z_try_from(w)
             r_code == RCode_try_from(w)
         IN  IF op_code.tag = "Err" THEN HeaderTryFromError_from(op_code)
             ELSE IF z.tag = "Err" THEN HeaderTryFromError_from(z)
             ELSE IF r_code.tag = "Err" THEN HeaderTryFromError_from(r_code)
             ELSE Ok(HeaderOf(b, w, op_code.val, z.val, r_code.val))

(***************************************************************************)
(* Label grammar and domain model (lib/src/domain/name.rs).                *)
(***************************************************************************)
MAX_LABEL_LENGTH == 63
LABEL_SEPARATOR == 46

\* u8::is_ascii_alphabetic, u8::is_ascii_alphanumeric
is_ascii_alphabetic(byte) == byte \in 65..90 \/ byte \in 97..122
is_ascii_alphanumeric(byte) == is_ascii_alphabetic(byte) \/ byte \in 48..57

\* bytes.iter().all(|&byte| byte.is_ascii_alphanumeric() || byte == b'-')
bytes_are_ldh_str(bytes) ==
    \A i \in 1..Len(bytes) : is_ascii_alphanumeric(bytes[i]) \/ bytes[i] = 45

\* String::from_utf8 accepts exactly the well-formed UTF-8 byte sequences.
IsContinuation(bytes, i) == i <= Len(bytes) /\ bytes[i] \in 128..191
SecondIn(bytes, i, lo, hi) == i <= Len(bytes) /\ bytes[i] \in lo..hi

\* the index of the first non-ASCII byte at or after i, Len(bytes) + 1 if none
\* (the validation loop steps over a run of ASCII bytes without looking back)
AsciiRunEnd(bytes, i) ==
    LET rest == {j \in i..Len(bytes) : bytes[j] >= 128} IN
    IF rest = {} THEN Len(bytes) + 1
    ELSE CHOOSE j \in rest : \A k \in rest : j <= k

RECURSIVE Utf8From(_, _)
Utf8From(bytes, i) ==
    IF i > Len(bytes) THEN TRUE
    ELSE LET b0 == bytes[i] IN
         CASE b0 < 128 -> Utf8From(bytes, AsciiRunEnd(bytes, i))
           [] b0 \in 194..223 ->
                IsContinuation(bytes, i + 1) /\ Utf8From(bytes, i + 2)
           [] b0 \in 224..239 ->
                /\ SecondIn(bytes, i + 1,
                            IF b0 = 224 THEN 160 ELSE 128,
                            IF b0 = 237 THEN 159 ELSE 191)
                /\ IsContinuation(bytes, i + 2)
                /\ Utf8From(bytes, i + 3)
           [] b0 \in 240..244 ->
                /\ SecondIn(bytes, i + 1,
                            IF b0 = 240 THEN 144 ELSE 128,
                            IF b0 = 244 THEN 143 ELSE 191)
                /\ IsContinuation(bytes, i + 2)
                /\ IsContinuation(bytes, i + 3)
                /\ Utf8From(bytes, i + 4)
           [] OTHER -> FALSE

from_utf8_is_ascii(bytes) == \A i \in 1..Len(bytes) : bytes[i] < 128
from_utf8_is_ok(bytes) == Utf8From(bytes, 1)

parse_label_length_first(bytes) ==
    IF Len(bytes) = 0
    THEN Err([kind |-> "LabelEmpty"])
    ELSE IF Len(bytes) > MAX_LABEL_LENGTH
    THEN Err([kind |-> "LabelTooLong", label |-> bytes])
    ELSE IF ~from_utf8_is_ok(bytes)
    THEN Err([kind |-> "LabelInvalidEncoding", bytes |-> bytes])
    ELSE IF /\ is_ascii_alphabetic(bytes[1])
            /\ bytes_are_ldh_str(bytes)
            /\ is_ascii_alphanumeric(bytes[Len(bytes)])
    THEN Ok(bytes)
    ELSE Err([kind |-> "LabelInvalidFormat", label |-> bytes])

parse_label_limit_exclusive(bytes) ==
    IF ~from_utf8_is_ok(bytes)
    THEN Err([kind |-> "LabelInvalidEncoding", bytes |-> bytes])
    ELSE IF Len(bytes) = 0
    THEN Err([kind |-> "LabelEmpty"])
    ELSE IF Len(bytes) >= MAX_LABEL_LENGTH
    THEN Err([kind |-> "LabelTooLong", label |-> bytes])
    ELSE IF /\ is_ascii_alphabetic(bytes[1])
            /\ bytes_are_ldh_str(bytes)
            /\ is_ascii_alphanumeric(bytes[Len(bytes)])
    THEN Ok(bytes)
    ELSE Err([kind |-> "LabelInvalidFormat", label |-> bytes])
\* pub fn parse_label(bytes: &[u8]) -> Result<String, TryFromError>
\* A String is modelled by its bytes.
parse_label(bytes) ==
    IF ~from_utf8_is_ok(bytes)
    THEN Err([kind |-> "LabelInvalidEncoding", bytes |-> bytes])
    ELSE IF Len(bytes) = 0
    THEN Err([kind |-> "LabelEmpty"])
    ELSE IF Len(bytes) > MAX_LABEL_LENGTH
    THEN Err([kind |-> "LabelTooLong", label |-> bytes])
    ELSE LET first_byte == SubSeq(bytes, 1, 1)
             remaining_bytes == SubSeq(bytes, 2, Len(bytes))
         IN  IF Len(remaining_bytes) = 0
             THEN IF is_ascii_alphabetic(first_byte[1])
                  THEN Ok(bytes)
                  ELSE Err([kind |-> "LabelInvalidFormat", label |-> bytes])
             ELSE LET middle_bytes ==
                          SubSeq(remaining_bytes, 1, Len(remaining_bytes) - 1)
                      last_byte ==
                          SubSeq(remaining_bytes, Len(remaining_bytes),
                                 Len(remaining_bytes))
                      first_byte_letter == is_ascii_alphabetic(first_byte[1])
                      last_byte_letter_digit ==
                          Len(last_byte) = 0 \/ is_ascii_alphanumeric(last_byte[1])
                      middle_bytes_are_ldh_str ==
                          Len(middle_bytes) = 0 \/ bytes_are_ldh_str(middle_bytes)
                  IN  IF /\ first_byte_letter
                         /\ middle_bytes_are_ldh_str
                         /\ last_byte_letter_digit
                      THEN Ok(bytes)
                      ELSE Err([kind |-> "LabelInvalidFormat", label |-> bytes])

\* Domain::new(): a Domain with no labels.  A Domain is modelled by its
\* sequence of labels.
Domain_new == <<>>

\* Domain::add_label(&mut self, bytes): validates one label with parse_label
\* and appends it; the Domain is unchanged when the label is rejected.
add_label(labels, bytes) ==
    LET parsed == parse_label(bytes) IN
    IF parsed.tag = "Ok" THEN Ok(Append(labels, parsed.val)) ELSE parsed

\* slice::split(|&byte| byte == sep): the pieces between the separators, an
\* empty slice giving one empty piece.
RECURSIVE split(_, _)
split(bytes, sep) ==
    IF \A i \in 1..Len(bytes) : bytes[i] # sep
    THEN <<bytes>>
    ELSE LET first == CHOOSE i \in 1..Len(bytes) :
                          /\ bytes[i] = sep
                          /\ \A j \in 1..(i - 1) : bytes[j] # sep
         IN  <<SubSeq(bytes, 1, first - 1)>>
                 \o split(SubSeq(bytes, first + 1, Len(bytes)), sep)

collect_last_error(results) ==
    LET errs == {i \in 1..Len(results) : results[i].tag = "Err"} IN
    IF errs = {}
    THEN Ok([i \in 1..Len(results) |-> results[i].val])
    ELSE results[CHOOSE i \in errs : \A j \in errs : j <= i]
\* Iterator::collect::<Result<Vec<_>, _>>(): the first Err met from the left,
\* or all the Ok values in order.
RECURSIVE collect(_)
collect(results) ==
    IF Len(results) = 0 THEN Ok(<<>>)
    ELSE IF Head(results).tag = "Err" THEN Head(results)
    ELSE LET rest == collect(Tail(results)) IN
         IF rest.tag = "Err" THEN rest
         ELSE Ok(<<Head(results).val>> \o rest.val)

Domain_try_from_unguarded(bytes) ==
    LET raw_labels == split(bytes, LABEL_SEPARATOR)
    IN  collect([i \in 1..Len(raw_labels) |-> parse_label(raw_labels[i])])
Domain_try_from_drops_empty_pieces(bytes) ==
    IF Len(bytes) = 0
    THEN Err([kind |-> "DomainEmpty"])
    ELSE LET raw_labels == SelectSeq(split(bytes, LABEL_SEPARATOR),
                                     LAMBDA piece : Len(piece) > 0)
         IN  collect([i \in 1..Len(raw_labels) |-> parse_label(raw_labels[i])])
\* impl TryFrom<&[u8]> for Domain
Domain_try_from(bytes) ==
    IF Len(bytes) = 0
    THEN Err([kind |-> "DomainEmpty"])
    ELSE LET raw_labels == split(bytes, LABEL_SEPARATOR)
             parsed_labels_result ==
                 collect([i \in 1..Len(raw_labels) |->
                             parse_label(raw_labels[i])])
         IN  parsed_labels_result

\* impl TryFrom<String> for Domain: Domain::try_from(value.as_bytes()).  A
\* String is modelled by its bytes, which are valid UTF-8.
Domain_try_from_string(string) == Domain_try_from(string)

\* [String]::join(sep)
RECURSIVE join(_, _)
join(labels, sep) ==
    IF Len(labels) = 0 THEN <<>>
    ELSE IF Len(labels) = 1 THEN Head(labels)
    ELSE Head(labels) \o sep \o join(Tail(labels), sep)

Domain_fmt_no_separator(labels) == join(labels, <<>>)
\* impl Display for Domain: self.labels.join(&LABEL_SEPARATOR.to_string())
Domain_fmt(labels) == join(labels, <<LABEL_SEPARATOR>>)

(***************************************************************************)
(* The earlier label predicate (lib/src/domain.rs).                        *)
(***************************************************************************)
bytes_are_label_last_byte_unchecked(bytes) ==
    /\ Len(bytes) \in 1..MAX_LABEL_LENGTH
    /\ is_ascii_alphabetic(bytes[1])
    /\ bytes_are_ldh_str(bytes)

bytes_are_label_limit_exclusive(bytes) ==
    Len(bytes) < MAX_LABEL_LENGTH /\ parse_label(bytes).tag = "Ok"
\* pub fn bytes_are_label(bytes: &[u8]) -> bool
bytes_are_label(bytes) ==
    IF Len(bytes) = 0 \/ Len(bytes) > MAX_LABEL_LENGTH
    THEN FALSE
    ELSE LET first_byte == SubSeq(bytes, 1, 1)
             remaining_bytes == SubSeq(bytes, 2, Len(bytes))
         IN  IF Len(remaining_bytes) = 0
             THEN is_ascii_alphabetic(first_byte[1])
             ELSE LET middle_bytes ==
                          SubSeq(remaining_bytes, 1, Len(remaining_bytes) - 1)
                      last_byte ==
                          SubSeq(remaining_bytes, Len(remaining_bytes),
                                 Len(remaining_bytes))
                      first_byte_letter == is_ascii_alphabetic(first_byte[1])
                      last_byte_letter_digit ==
                          Len(last_byte) = 0 \/ is_ascii_alphanumeric(last_byte[1])
                      middle_bytes_are_ldh_str ==
                          Len(middle_bytes) = 0 \/ bytes_are_ldh_str(middle_bytes)
                  IN  /\ first_byte_letter
                      /\ middle_bytes_are_ldh_str
                      /\ last_byte_letter_digit

(***************************************************************************)
(* Question decoder (lib/src/message/question.rs).  The locals of          *)
(* parse_question are the record s; each operator is one branch of the     *)
(* loop body, or the code after the loop.  An index past the end of the    *)
(* buffer makes the call panic.                                            *)
(***************************************************************************)
Panic == [tag |-> "Panic"]

\* QType::new, QClass::new
QType_new(v) == [value |-> v]
QClass_new(v) == [value |-> v]

\* enum KnownQType, #[repr(u16)]: the variants and `k as u16`
KnownQType ==
    {"A", "NS", "MD", "MF", "CNAME", "SOA", "MB", "MG", "MR", "NULL", "WKS",
     "PTR", "HINFO", "MINFO", "MX", "TXT", "AXFR", "MAILB", "MAILA", "ANY"}
KnownQType_as_u16(k) ==
    CASE k = "A" -> 1 [] k = "NS" -> 2 [] k = "MD" -> 3 [] k = "MF" -> 4
      [] k = "CNAME" -> 5 [] k = "SOA" -> 6 [] k = "MB" -> 7 [] k = "MG" -> 8
      [] k = "MR" -> 9 [] k = "NULL" -> 10 [] k = "WKS" -> 11
      [] k = "PTR" -> 12 [] k = "HINFO" -> 13 [] k = "MINFO" -> 14
      [] k = "MX" -> 15 [] k = "TXT" -> 16 [] k = "AXFR" -> 252
      [] k = "MAILB" -> 253 [] k = "MAILA" -> 254 [] k = "ANY" -> 255

to_known_type_below_17(q) ==
    IF q.value \in 1..16
    THEN Some(CHOOSE k \in KnownQType : KnownQType_as_u16(k) = q.value)
    ELSE None
\* QType::to_known_type(&self) -> Option<KnownQType>
to_known_type(q) ==
    CASE q.value = 1 -> Some("A")
      [] q.value = 2 -> Some("NS")
      [] q.value = 3 -> Some("MD")
      [] q.value = 4 -> Some("MF")
      [] q.value = 5 -> Some("CNAME")
      [] q.value = 6 -> Some("SOA")
      [] q.value = 7 -> Some("MB")
      [] q.value = 8 -> Some("MG")
      [] q.value = 9 -> Some("MR")
      [] q.value = 10 -> Some("NULL")
      [] q.value = 11 -> Some("WKS")
      [] q.value = 12 -> Some("PTR")
      [] q.value = 13 -> Some("HINFO")
      [] q.value = 14 -> Some("MINFO")
      [] q.value = 15 -> Some("MX")
      [] q.value = 16 -> Some("TXT")
      [] q.value = 252 -> Some("AXFR")
      [] q.value = 253 -> Some("MAILB")
      [] q.value = 254 -> Some("MAILA")
      [] q.value = 255 -> Some("ANY")
      [] OTHER -> None

\* impl From<KnownQType> for QType
QType_from(k) == [value |-> KnownQType_as_u16(k)]

\* enum KnownQClass, #[repr(u16)]: the variants and `k as u16`
KnownQClass == {"IN", "CS", "CH", "HS", "ANY"}
KnownQClass_as_u16(k) ==
    CASE k = "IN" -> 1 [] k = "CS" -> 2 [] k = "CH" -> 3 [] k = "HS" -> 4
      [] k = "ANY" -> 255

\* QClass::to_known_class(&self) -> Option<KnownQClass>
to_known_class(q) ==
    CASE q.value = 1 -> Some("IN")
      [] q.value = 2 -> Some("CS")
      [] q.value = 3 -> Some("CH")
      [] q.value = 4 -> Some("HS")
      [] q.value = 255 -> Some("ANY")
      [] OTHER -> None

\* impl From<KnownQClass> for QClass
QClass_from(k) == [value |-> KnownQClass_as_u16(k)]

\* impl PartialEq<KnownQType> for QType, impl PartialEq<KnownQClass> for QClass
QType_eq_known(q, k) == q.value = KnownQType_as_u16(k)
QClass_eq_known(q, k) == q.value = KnownQClass_as_u16(k)

InBounds(b, i) == i < Len(b)

is_pointer_high_bit(byte) == byte \div 128 = 1
\* (message_bytes[pos] & 0b11000000) == 0b11000000
is_pointer(byte) == (byte \div 64) % 4 = 3

Panicked(s) == [s EXCEPT !.pc = "done", !.result = Panic]

PointerStep_relative_to_cursor(b, s) ==
    LET entered ==
            IF ~s.using_compression
            THEN [s EXCEPT !.bytes_read = @ + 2,
                           !.question_pos = s.pos + 2,
                           !.using_compression = TRUE]
            ELSE s
    IN  IF ~InBounds(b, s.pos + 1)
        THEN Panicked(entered)
        ELSE LET pointer_first_6_bits == (At(b, s.pos) % 64) * 256
                 pointer_last_8_bits == At(b, s.pos + 1)
                 pointer == pointer_first_6_bits + pointer_last_8_bits
             IN  [entered EXCEPT !.pos = s.pos + pointer]
PointerStep_stops_at_own_position(b, s) ==
    LET entered ==
            IF ~s.using_compression
            THEN [s EXCEPT !.bytes_read = @ + 2,
                           !.question_pos = s.pos + 2,
                           !.using_compression = TRUE]
            ELSE s
    IN  IF ~InBounds(b, s.pos + 1)
        THEN Panicked(entered)
        ELSE LET pointer_first_6_bits == (At(b, s.pos) % 64) * 256
                 pointer_last_8_bits == At(b, s.pos + 1)
                 pointer == pointer_first_6_bits + pointer_last_8_bits
             IN  IF pointer = s.pos
                 THEN [entered EXCEPT !.pos = @ + 2, !.pc = "fields"]
                 ELSE [entered EXCEPT !.pos = pointer]
PointerStep_counts_every_pointer(b, s) ==
    LET entered ==
            [s EXCEPT !.bytes_read = @ + 2,
                      !.question_pos = s.pos + 2,
                      !.using_compression = TRUE]
    IN  IF ~InBounds(b, s.pos + 1)
        THEN Panicked(entered)
        ELSE LET pointer_first_6_bits == (At(b, s.pos) % 64) * 256
                 pointer_last_8_bits == At(b, s.pos + 1)
                 pointer == pointer_first_6_bits + pointer_last_8_bits
             IN  [entered EXCEPT !.pos = pointer]
\* the pointer branch of the loop
PointerStep(b, s) ==
    LET entered ==
            IF ~s.using_compression
            THEN [s EXCEPT !.bytes_read = @ + 2,
                           !.question_pos = s.pos + 2,
                           !.using_compression = TRUE]
            ELSE s
    IN  IF ~InBounds(b, s.pos + 1)
        THEN Panicked(entered)
        ELSE LET pointer_first_6_bits == (At(b, s.pos) % 64) * 256
                 pointer_last_8_bits == At(b, s.pos + 1)
                 pointer == pointer_first_6_bits + pointer_last_8_bits
             IN  [entered EXCEPT !.pos = pointer]

TerminatorStep_zero_uncounted(b, s) ==
    IF ~s.using_compression
    THEN [s EXCEPT !.pos = @ + 1,
                   !.question_pos = s.pos + 1,
                   !.pc = "fields"]
    ELSE [s EXCEPT !.pos = @ + 1, !.pc = "fields"]
\* the zero-length branch of the loop: end of the QNAME portion
TerminatorStep(b, s) ==
    IF ~s.using_compression
    THEN [s EXCEPT !.pos = @ + 1,
                   !.bytes_read = @ + 1,
                   !.question_pos = s.pos + 1,
                   !.pc = "fields"]
    ELSE [s EXCEPT !.pos = @ + 1, !.pc = "fields"]

LabelStep_cursor_stays(b, s) ==
    LET label_length == At(b, s.pos)
        inside == [s EXCEPT !.pos = @ + 1,
                            !.bytes_read =
                                IF ~s.using_compression THEN @ + 1 ELSE @]
    IN  IF inside.pos + label_length > Len(b)
        THEN Panicked(inside)
        ELSE LET label_slice ==
                     SubSeq(b, inside.pos + 1, inside.pos + label_length)
                 added == add_label(s.q_name, label_slice)
             IN  IF added.tag = "Ok"
                 THEN [s EXCEPT
                          !.q_name = added.val,
                          !.bytes_read =
                              IF ~s.using_compression
                              THEN @ + 1 + label_length ELSE @]
                 ELSE [inside EXCEPT !.pc = "done", !.result = added]
LabelStep_prepends(b, s) ==
    LET label_length == At(b, s.pos)
        inside == [s EXCEPT !.pos = @ + 1,
                            !.bytes_read =
                                IF ~s.using_compression THEN @ + 1 ELSE @]
    IN  IF inside.pos + label_length > Len(b)
        THEN Panicked(inside)
        ELSE LET label_slice ==
                     SubSeq(b, inside.pos + 1, inside.pos + label_length)
                 added == add_label(<<>>, label_slice)
             IN  IF added.tag = "Ok"
                 THEN [inside EXCEPT
                          !.q_name = added.val \o s.q_name,
                          !.pos = @ + label_length,
                          !.bytes_read =
                              IF ~s.using_compression
                              THEN @ + label_length ELSE @]
                 ELSE [inside EXCEPT !.pc = "done", !.result = added]
LabelStep_length_uncounted(b, s) ==
    LET label_length == At(b, s.pos)
        inside == [s EXCEPT !.pos = @ + 1,
                            !.bytes_read =
                                IF ~s.using_compression THEN @ + 1 ELSE @]
    IN  IF inside.pos + label_length > Len(b)
        THEN Panicked(inside)
        ELSE LET label_slice ==
                     SubSeq(b, inside.pos + 1, inside.pos + label_length)
                 added == add_label(s.q_name, label_slice)
             IN  IF added.tag = "Ok"
                 THEN [inside EXCEPT !.q_name = added.val,
                                     !.pos = @ + label_length]
                 ELSE [inside EXCEPT !.pc = "done", !.result = added]
LabelStep_skips_rejected(b, s) ==
    LET label_length == At(b, s.pos)
        inside == [s EXCEPT !.pos = @ + 1,
                            !.bytes_read =
                                IF ~s.using_compression THEN @ + 1 ELSE @]
    IN  IF inside.pos + label_length > Len(b)
        THEN Panicked(inside)
        ELSE LET label_slice ==
                     SubSeq(b, inside.pos + 1, inside.pos + label_length)
                 added == add_label(s.q_name, label_slice)
             IN  [inside EXCEPT
                     !.q_name = IF added.tag = "Ok" THEN added.val ELSE @,
                     !.pos = @ + label_length,
                     !.bytes_read =
                         IF ~s.using_compression
                         THEN @ + label_length ELSE @]
\* the label branch of the loop
LabelStep(b, s) ==
    LET label_length == At(b, s.pos)
        inside == [s EXCEPT !.pos = @ + 1,
                            !.bytes_read =
                                IF ~s.using_compression THEN @ + 1 ELSE @]
    IN  IF inside.pos + label_length > Len(b)
        THEN Panicked(inside)
        ELSE LET label_slice ==
                     SubSeq(b, inside.pos + 1, inside.pos + label_length)
                 added == add_label(s.q_name, label_slice)
             IN  IF added.tag = "Ok"
                 THEN [inside EXCEPT
                          !.q_name = added.val,
                          !.pos = @ + label_length,
                          !.bytes_read =
                              IF ~s.using_compression
                              THEN @ + label_length ELSE @]
                 ELSE [inside EXCEPT !.pc = "done", !.result = added]

FieldsStep_at_read_cursor(b, s) ==
    IF ~InBounds(b, s.pos + 1)
    THEN Panicked(s)
    ELSE LET q_type_raw == from_be_bytes(At(b, s.pos), At(b, s.pos + 1))
             typed == [s EXCEPT !.pos = @ + 2, !.bytes_read = @ + 2]
         IN  IF ~InBounds(b, typed.pos + 1)
             THEN Panicked(typed)
             ELSE LET q_class_raw ==
                          from_be_bytes(At(b, typed.pos), At(b, typed.pos + 1))
                      question == [q_name |-> s.q_name,
                                   q_type |-> QType_new(q_type_raw),
                                   q_class |-> QClass_new(q_class_raw)]
                  IN  [typed EXCEPT
                          !.bytes_read = @ + 2,
                          !.pc = "done",
                          !.result = Ok([question |-> question,
                                         bytes_read |-> typed.bytes_read + 2])]
\* after the loop: QTYPE, QCLASS and the returned value
FieldsStep(b, s) ==
    IF ~InBounds(b, s.question_pos + 1)
    THEN Panicked(s)
    ELSE LET q_type_raw ==
                 from_be_bytes(At(b, s.question_pos), At(b, s.question_pos + 1))
             typed == [s EXCEPT !.question_pos = @ + 2, !.bytes_read = @ + 2]
         IN  IF ~InBounds(b, typed.question_pos + 1)
             THEN Panicked(typed)
             ELSE LET q_class_raw ==
                          from_be_bytes(At(b, typed.question_pos),
                                        At(b, typed.question_pos + 1))
                      question == [q_name |-> s.q_name,
                                   q_type |-> QType_new(q_type_raw),
                                   q_class |-> QClass_new(q_class_raw)]
                  IN  [typed EXCEPT
                          !.bytes_read = @ + 2,
                          !.pc = "done",
                          !.result = Ok([question |-> question,
                                         bytes_read |-> typed.bytes_read + 2])]

CallLocals_of_first_call(cs, i) == cs[1].s
\* each call has its own locals: they are `let` bindings of the function body
CallLocals(cs, i) == cs[i].s

\* the locals at the start of a call
CallStart(o) ==
    [question_pos |-> o,
     using_compression |-> FALSE,
     bytes_read |-> 0,
     q_name |-> Domain_new,
     pos |-> o,
     pc |-> "name",
     result |-> None]

(***************************************************************************)
(* Inputs of the header specification.                                     *)
(***************************************************************************)
MaxExtraBytes == 1

\* first flags byte: QR(1) OPCODE(4) AA TC RD
FlagsHighBytes ==
    {qr * 128 + op * 8 + low : qr \in {0, 1}, op \in {0, 1, 2, 3, 7, 8, 15},
                               low \in 0..7}
\* second flags byte: RA Z(3) RCODE(4)
FlagsLowBytes ==
    {ra * 128 + zf * 16 + rc : ra \in {0, 1}, zf \in {0, 1, 2, 4, 7},
                               rc \in {0, 1, 3, 5, 6, 12, 15}}

\* identifier and count bytes, around the flags word
HeaderFrames ==
    { <<0, 255, 0, 1, 0, 0, 0, 0, 0, 0>>,
      <<2, 255, 0, 2, 0, 0, 0, 0, 0, 1>>,
      <<1, 2, 3, 4, 5, 6, 7, 8, 9, 10>> }

HeaderBytes(f, hi, lo) == <<f[1], f[2], hi, lo>> \o SubSeq(f, 3, 10)

FullHeaders ==
    {HeaderBytes(f, hi, lo) : f \in HeaderFrames, hi \in FlagsHighBytes,
                              lo \in FlagsLowBytes}

RECURSIVE SeqsOver(_, _)
SeqsOver(S, n) ==
    IF n = 0 THEN {<<>>}
    ELSE {Append(s, x) : s \in SeqsOver(S, n - 1), x \in S}

SeqsUpTo(S, n) == UNION {SeqsOver(S, k) : k \in 0..n}

ShortHeaders ==
    {SubSeq(HeaderBytes(f, hi, lo), 1, n) :
        f \in HeaderFrames, hi \in {0, 56, 255}, lo \in {0, 32, 12, 255},
        n \in 0..(HEADER_BYTES - 1)}

LongHeaders ==
    {HeaderBytes(f, hi, lo) \o x :
        f \in HeaderFrames, hi \in {0, 56, 145}, lo \in {0, 32, 12, 131},
        x \in SeqsUpTo({0, 255}, MaxExtraBytes) \ {<<>>}}

HeaderInputs == FullHeaders \cup ShortHeaders \cup LongHeaders

FlagWords == {from_be_bytes(hi, lo) : hi \in FlagsHighBytes, lo \in FlagsLowBytes}

(***************************************************************************)
(* Specification of the header codec: one call of Header::try_from.        *)
(***************************************************************************)
FlagsIdle ==
    /\ flags = 0
    /\ op_code_result = None
    /\ z_result = None
    /\ r_code_result = None
    /\ qr_result = None

HeaderIdle ==
    /\ value = <<>>
    /\ header_result = None

QuestionIdle ==
    /\ message_bytes = <<>>
    /\ offset = 0
    /\ question_pos = 0
    /\ using_compression = FALSE
    /\ bytes_read = 0
    /\ q_name = <<>>
    /\ pos = 0
    /\ pc = "idle"
    /\ result = None
    /\ layout = <<>>
    /\ cursor = 0
    /\ decoded = <<>>

DomainIdle ==
    /\ domain_value = <<>>
    /\ domain_result = None
    /\ rendered = None

LabelIdle ==
    /\ label_bytes = <<>>
    /\ label_result = None
    /\ is_label_result = None
    /\ is_ldh_result = None

KindIdle ==
    /\ raw_value = 0
    /\ known_type_result = NotCalled
    /\ known_class_result = NotCalled
    /\ q_type_back = NotCalled
    /\ q_class_back = NotCalled

CodecIdle == DomainIdle /\ LabelIdle /\ KindIdle

WalkIdle ==
    /\ iterations = 0
    /\ followed = {}
    /\ revisited = FALSE

InterleavingIdle ==
    /\ buffers = <<>>
    /\ calls = <<>>

RunIdle == WalkIdle /\ InterleavingIdle

InitHeader ==
    /\ value \in HeaderInputs
    /\ header_result = None
    /\ FlagsIdle
    /\ QuestionIdle
    /\ CodecIdle
    /\ RunIdle

HeaderTryFrom ==
    /\ header_result = None
    /\ header_result' = Header_try_from(value)
    /\ UNCHANGED <<value, flag_vars, question_vars, codec_vars, run_vars>>

NextHeader == HeaderTryFrom

SpecHeader == InitHeader /\ [][NextHeader]_vars

(***************************************************************************)
(* Specification of the flag-field conversions on a bare flags word.       *)
(***************************************************************************)
InitFlags ==
    /\ flags \in FlagWords
    /\ op_code_result = None
    /\ z_result = None
    /\ r_code_result = None
    /\ qr_result = None
    /\ HeaderIdle
    /\ QuestionIdle
    /\ CodecIdle
    /\ RunIdle

OpCodeTryFrom ==
    /\ op_code_result = None
    /\ op_code_result' = OpCode_try_from(flags)
    /\ UNCHANGED <<flags, z_result, r_code_result, qr_result, header_vars,
                   question_vars, codec_vars, run_vars>>

ZTryFrom ==
    /\ z_result = None
    /\ z_result' = Z_try_from(flags)
    /\ UNCHANGED <<flags, op_code_result, r_code_result, qr_result, header_vars,
                   question_vars, codec_vars, run_vars>>

RCodeTryFrom ==
    /\ r_code_result = None
    /\ r_code_result' = RCode_try_from(flags)
    /\ UNCHANGED <<flags, op_code_result, z_result, qr_result, header_vars,
                   question_vars, codec_vars, run_vars>>

QRFrom ==
    /\ qr_result = None
    /\ qr_result' = Ok(QR_from(flags))
    /\ UNCHANGED <<flags, op_code_result, z_result, r_code_result, header_vars,
                   question_vars, codec_vars, run_vars>>

NextFlags == OpCodeTryFrom \/ ZTryFrom \/ RCodeTryFrom \/ QRFrom

SpecFlags == InitFlags /\ [][NextFlags]_vars

(***************************************************************************)
(* Inputs of the question decoder.                                         *)
(***************************************************************************)
MaxFreeTokens == 3
MaxPreTokens == 2
MaxLocalLabels == 2
\* a pointer loop through a label grows q_name without end: the model stops
\* following it at this many labels
MaxNameLabels == 8

RECURSIVE Flatten(_)
Flatten(ss) == IF ss = <<>> THEN <<>> ELSE Head(ss) \o Flatten(Tail(ss))

\* the wire form of one label: its length, then its bytes
WireLabel(l) == <<Len(l)>> \o l
\* the two bytes of a compression pointer to absolute offset t
WirePointer(t) == <<192 + (t \div 256), t % 256>>

LabelA == <<97>>
LabelB1 == <<98, 49>>
LabelDigit == <<49>>
LabelNotUtf8 == <<255>>

\* what an earlier part of a message may hold
PreTokens ==
    {<<0>>, WireLabel(LabelA), WireLabel(LabelA) \o <<0>>, WirePointer(0),
     WirePointer(3)}
LocalLabels == {LabelA, LabelB1}
NameEnds == {<<0>>, WirePointer(0), WirePointer(2), WirePointer(3)}
FieldTails == {<<>>, <<0, 1, 0, 1>>, <<1, 2, 3, 4>>}

\* a question laid out after an earlier part, decoded from its first byte
WireLabels(ls) == Flatten([i \in 1..Len(ls) |-> WireLabel(ls[i])])
LayoutBytes(pre, ls, end, tail) ==
    Flatten(pre) \o WireLabels(ls) \o end \o tail
PreParts == SeqsUpTo(PreTokens, MaxPreTokens)
LocalParts == SeqsUpTo(LocalLabels, MaxLocalLabels)

\* short buffers of any shape, decoded from any offset
FreeTokens ==
    {<<0>>, WireLabel(LabelA), WireLabel(LabelB1), WireLabel(LabelDigit),
     WireLabel(LabelNotUtf8), WirePointer(0), WirePointer(2), WirePointer(300)}
FreeParts == SeqsUpTo(FreeTokens, MaxFreeTokens)
FreeTails == {<<>>, <<1, 2, 3, 4>>}

Repeat(c, n) == [i \in 1..n |-> c]
\* a label of n >= 2 bytes: first byte f, interior bytes c, last byte l
LongLabel(f, c, l, n) == <<f>> \o Repeat(c, n - 2) \o <<l>>

\* the four messages of tests::parse_question_works, each with its offset
Example == <<101, 120, 97, 109, 112, 108, 101>>
Com == <<99, 111, 109>>
Test == <<116, 101, 115, 116>>
PlainMessage ==
    WireLabel(Example) \o WireLabel(Com) \o <<0>> \o <<0, 1, 0, 1>>
OffsetMessage == <<0, 0, 0>> \o PlainMessage
CompressedMessage ==
    <<0, 0, 0>> \o WireLabel(Example) \o WireLabel(Com) \o <<0>>
        \o WireLabel(Test) \o <<192, 3>> \o <<0, 1, 0, 1>>
NestedCompressedMessage ==
    WireLabel(Com) \o <<0>> \o WireLabel(Example) \o <<192, 0>>
        \o WireLabel(Test) \o <<192, 5>> \o <<0, 1, 0, 1>>
TestCases ==
    {[bytes |-> PlainMessage, offset |-> 0],
     [bytes |-> OffsetMessage, offset |-> 3],
     [bytes |-> CompressedMessage, offset |-> 16],
     [bytes |-> NestedCompressedMessage, offset |-> 15]}

\* length bytes around the label limit and with the high bits 01 and 10
LengthBytes == {63, 64, 65, 97, 128, 191}
\* what follows such a length byte: that many letters, the same with a last
\* byte that is not UTF-8, or one byte too few
LongBodies(n) ==
    {Repeat(97, n) \o <<0, 0, 1, 0, 1>>,
     Repeat(97, n - 1) \o <<255>> \o <<0, 0, 1, 0, 1>>,
     Repeat(97, n - 1)}
\* what precedes it: nothing, a label, a pointer to it
LongPrefixes == {<<>>, WireLabel(LabelA), WirePointer(2)}
LongLabelMessages ==
    UNION {{pre \o <<n>> \o body : pre \in LongPrefixes, body \in LongBodies(n)} :
              n \in LengthBytes}
MaxStartOffset == 3

\* a pointer whose first byte carries target bits: to a name that lies past
\* byte 255 of the message, and to the largest target of all
FarTarget == 260
FarMessage(pre) ==
    pre \o WirePointer(FarTarget)
        \o Repeat(97, FarTarget - Len(pre) - 2)
        \o WireLabel(LabelA) \o <<0>> \o <<0, 1, 0, 1>>
FarMessages ==
    {FarMessage(<<>>), FarMessage(WireLabel(LabelB1)), WirePointer(16383)}

(***************************************************************************)
(* Specification of the question decoder: one call of parse_question,      *)
(* one loop iteration per step.                                            *)
(***************************************************************************)
Locals ==
    [question_pos |-> question_pos,
     using_compression |-> using_compression,
     bytes_read |-> bytes_read,
     q_name |-> q_name,
     pos |-> pos,
     pc |-> pc,
     result |-> result]

Becomes(s) ==
    /\ question_pos' = s.question_pos
    /\ using_compression' = s.using_compression
    /\ bytes_read' = s.bytes_read
    /\ q_name' = s.q_name
    /\ pos' = s.pos
    /\ pc' = s.pc
    /\ result' = s.result

LocalsAre(s) ==
    /\ question_pos = s.question_pos
    /\ using_compression = s.using_compression
    /\ bytes_read = s.bytes_read
    /\ q_name = s.q_name
    /\ pos = s.pos
    /\ pc = s.pc
    /\ result = s.result

StartsCall(o) ==
    /\ offset = o
    /\ LocalsAre(CallStart(o))

InitQuestion ==
    /\ \/ \E pre \in PreParts, ls \in LocalParts, end \in NameEnds,
              tail \in FieldTails :
            /\ message_bytes = LayoutBytes(pre, ls, end, tail)
            /\ StartsCall(Len(Flatten(pre)))
       \/ \E ts \in FreeParts, tail \in FreeTails :
            /\ message_bytes = Flatten(ts) \o tail
            /\ \E o \in 0..Len(message_bytes) : StartsCall(o)
       \/ \E c \in TestCases :
            /\ message_bytes = c.bytes
            /\ StartsCall(c.offset)
       \/ \E m \in LongLabelMessages \cup FarMessages :
            /\ message_bytes = m
            /\ \E o \in 0..MaxStartOffset : StartsCall(o)
    /\ cursor = offset
    /\ layout = <<>>
    /\ decoded = <<>>
    /\ HeaderIdle
    /\ FlagsIdle
    /\ CodecIdle
    /\ RunIdle

Frame ==
    UNCHANGED <<message_bytes, offset, caller_vars, header_vars, flag_vars,
                codec_vars, run_vars>>

\* message_bytes[pos] at the top of the loop, pos past the end
ReadOutOfBounds ==
    /\ pc = "name"
    /\ ~InBounds(message_bytes, pos)
    /\ Becomes(Panicked(Locals))
    /\ Frame

ReadPointer ==
    /\ pc = "name"
    /\ InBounds(message_bytes, pos)
    /\ is_pointer(At(message_bytes, pos))
    /\ Becomes(PointerStep(message_bytes, Locals))
    /\ Frame

ReadTerminator ==
    /\ pc = "name"
    /\ InBounds(message_bytes, pos)
    /\ ~is_pointer(At(message_bytes, pos))
    /\ At(message_bytes, pos) = 0
    /\ Becomes(TerminatorStep(message_bytes, Locals))
    /\ Frame

ReadLabel ==
    /\ pc = "name"
    /\ InBounds(message_bytes, pos)
    /\ ~is_pointer(At(message_bytes, pos))
    /\ At(message_bytes, pos) # 0
    /\ Len(q_name) < MaxNameLabels
    /\ Becomes(LabelStep(message_bytes, Locals))
    /\ Frame

ReadFields ==
    /\ pc = "fields"
    /\ Becomes(FieldsStep(message_bytes, Locals))
    /\ Frame

NextQuestion ==
    \/ ReadOutOfBounds
    \/ ReadPointer
    \/ ReadTerminator
    \/ ReadLabel
    \/ ReadFields

SpecQuestion == InitQuestion /\ [][NextQuestion]_vars

(***************************************************************************)
(* Specification of a caller that decodes the questions of a message one   *)
(* after the other, advancing its cursor by bytes_read.                    *)
(***************************************************************************)
MaxQuestions == 2

MessageHeader == <<0, 1, 1, 0, 0, 2, 0, 0, 0, 0, 0, 0>>

CursorNames == {<<>>, <<LabelA>>, <<LabelB1, LabelA>>}
CursorEnds == {<<0>>, WirePointer(12), WirePointer(14), WirePointer(64)}
CursorFields == {<<0, 1, 0, 1>>, <<1, 2, 3, 4>>}
CursorQuestions ==
    [labels : CursorNames, end : CursorEnds, fields : CursorFields]

WireQuestion(q) == WireLabels(q.labels) \o q.end \o q.fields
WireQuestions(qs) == Flatten([i \in 1..Len(qs) |-> WireQuestion(qs[i])])

InitCursor ==
    /\ layout \in SeqsUpTo(CursorQuestions, MaxQuestions) \ {<<>>}
    /\ message_bytes = MessageHeader \o WireQuestions(layout)
    /\ cursor = HEADER_BYTES
    /\ StartsCall(HEADER_BYTES)
    /\ decoded = <<>>
    /\ HeaderIdle
    /\ FlagsIdle
    /\ CodecIdle
    /\ RunIdle

\* the call returned Ok: keep the question, advance the cursor by bytes_read
CallerAdvance ==
    /\ pc = "done"
    /\ result.tag = "Ok"
    /\ decoded' = Append(decoded, result.val.question)
    /\ cursor' = cursor + result.val.bytes_read
    /\ pc' = "returned"
    /\ UNCHANGED <<message_bytes, offset, layout, question_pos,
                   using_compression, bytes_read, q_name, pos, result,
                   header_vars, flag_vars, codec_vars, run_vars>>

\* more questions are expected: parse_question(message_bytes, cursor)
CallerParseNext ==
    /\ pc = "returned"
    /\ Len(decoded) < Len(layout)
    /\ offset' = cursor
    /\ Becomes(CallStart(cursor))
    /\ UNCHANGED <<message_bytes, caller_vars, header_vars, flag_vars, codec_vars, run_vars>>

NextCursor ==
    \/ ReadOutOfBounds
    \/ ReadPointer
    \/ ReadTerminator
    \/ ReadLabel
    \/ ReadFields
    \/ CallerAdvance
    \/ CallerParseNext

SpecCursor == InitCursor /\ [][NextCursor]_vars

(***************************************************************************)
(* Inputs of the domain and label specifications.                          *)
(***************************************************************************)
MaxSegments == 3
MaxDomainBytes == 4
MaxLabelBytes == 3

Hyphen == 45
EAcute == <<195, 169>>                  \* U+00E9 in UTF-8
Label63 == LongLabel(97, Hyphen, 49, MAX_LABEL_LENGTH)
\* the 63-byte label and one more valid character
Label64 == Label63 \o <<97>>
Label64Hyphen == Label63 \o <<Hyphen>>

\* the segments a dotted input is put together from
Segments ==
    {<<>>, LabelA, LabelB1, LabelDigit, <<97, Hyphen, 98>>, EAcute,
     <<97>> \o EAcute \o <<98>>, <<255>>, Label63, Label64, Label64Hyphen}
SegmentParts == SeqsUpTo(Segments, MaxSegments) \ {<<>>}

\* every short string over a dot, a letter, a digit and a hyphen
DomainAlphabet == {LABEL_SEPARATOR, 97, 49, Hyphen}
FreeDomains == SeqsUpTo(DomainAlphabet, MaxDomainBytes)

\* every short byte string over letters, a digit, a hyphen, a dot, the two
\* bytes of a non-ASCII character, and a byte no UTF-8 text holds
LabelAlphabet == {97, 90, 49, Hyphen, LABEL_SEPARATOR, 195, 169, 255}
FreeLabels == SeqsUpTo(LabelAlphabet, MaxLabelBytes)

\* labels around the length limit
LongLabels ==
    {LongLabel(f, c, l, n) :
        f \in {97, 49}, c \in {97, Hyphen, 49}, l \in {97, 49, Hyphen},
        n \in (MAX_LABEL_LENGTH - 1)..(MAX_LABEL_LENGTH + 2)}
    \cup {Label63, Label64, Label64Hyphen}
    \cup {Repeat(97, n) \o EAcute :
            n \in (MAX_LABEL_LENGTH - 3)..(MAX_LABEL_LENGTH - 1)}
    \cup {Repeat(97, n) \o <<255>> :
            n \in (MAX_LABEL_LENGTH - 1)..MAX_LABEL_LENGTH}

(***************************************************************************)
(* Specification of the domain model: one Domain::try_from on a string or  *)
(* a byte slice, then to_string() on the Domain it returned.               *)
(***************************************************************************)
InitDomain ==
    /\ \/ \E segs \in SegmentParts :
            domain_value = join(segs, <<LABEL_SEPARATOR>>)
       \/ domain_value \in FreeDomains
    /\ domain_result = None
    /\ rendered = None
    /\ LabelIdle
    /\ KindIdle
    /\ HeaderIdle
    /\ FlagsIdle
    /\ QuestionIdle
    /\ RunIdle

DomainFrame ==
    UNCHANGED <<domain_value, label_vars, kind_vars, header_vars, flag_vars,
                question_vars, run_vars>>

\* Domain::try_from(value: &[u8])
DomainTryFromBytes ==
    /\ domain_result = None
    /\ domain_result' = Domain_try_from(domain_value)
    /\ UNCHANGED rendered
    /\ DomainFrame

\* a String holds valid UTF-8; a dot is ASCII, so the bytes are valid UTF-8
\* exactly when every piece between the dots is
IsString(bytes) ==
    LET pieces == split(bytes, LABEL_SEPARATOR)
    IN  \A i \in 1..Len(pieces) : from_utf8_is_ok(pieces[i])

\* Domain::try_from(value: String)
DomainTryFromString ==
    /\ domain_result = None
    /\ IsString(domain_value) = TRUE
    /\ domain_result' = Domain_try_from_string(domain_value)
    /\ UNCHANGED rendered
    /\ DomainFrame

\* domain.to_string()
DomainToString ==
    /\ domain_result.tag = "Ok"
    /\ rendered = None
    /\ rendered' = Ok(Domain_fmt(domain_result.val))
    /\ UNCHANGED domain_result
    /\ DomainFrame

NextDomain == DomainTryFromBytes \/ DomainTryFromString \/ DomainToString

SpecDomain == InitDomain /\ [][NextDomain]_vars

(***************************************************************************)
(* Specification of the label functions on one byte string.                *)
(***************************************************************************)
InitLabel ==
    /\ label_bytes \in FreeLabels \cup LongLabels
    /\ label_result = None
    /\ is_label_result = None
    /\ is_ldh_result = None
    /\ DomainIdle
    /\ KindIdle
    /\ HeaderIdle
    /\ FlagsIdle
    /\ QuestionIdle
    /\ RunIdle

LabelFrame ==
    UNCHANGED <<label_bytes, domain_vars, kind_vars, header_vars, flag_vars,
                question_vars, run_vars>>

ParseLabel ==
    /\ label_result = None
    /\ label_result' = parse_label(label_bytes)
    /\ UNCHANGED <<is_label_result, is_ldh_result>>
    /\ LabelFrame

BytesAreLabel ==
    /\ is_label_result = None
    /\ is_label_result' = Ok(bytes_are_label(label_bytes))
    /\ UNCHANGED <<label_result, is_ldh_result>>
    /\ LabelFrame

BytesAreLdhStr ==
    /\ is_ldh_result = None
    /\ is_ldh_result' = Ok(bytes_are_ldh_str(label_bytes))
    /\ UNCHANGED <<label_result, is_label_result>>
    /\ LabelFrame

NextLabel == ParseLabel \/ BytesAreLabel \/ BytesAreLdhStr

SpecLabel == InitLabel /\ [][NextLabel]_vars

(***************************************************************************)
(* Specification of the QTYPE and QCLASS mappings on one 16-bit value.     *)
(***************************************************************************)
U16 == 0..65535

InitKinds ==
    /\ raw_value \in U16
    /\ known_type_result = NotCalled
    /\ known_class_result = NotCalled
    /\ q_type_back = NotCalled
    /\ q_class_back = NotCalled
    /\ DomainIdle
    /\ LabelIdle
    /\ HeaderIdle
    /\ FlagsIdle
    /\ QuestionIdle
    /\ RunIdle

KindFrame ==
    UNCHANGED <<raw_value, domain_vars, label_vars, header_vars, flag_vars,
                question_vars, run_vars>>

\* QType::new(raw_value).to_known_type()
ToKnownType ==
    /\ known_type_result = NotCalled
    /\ known_type_result' = to_known_type(QType_new(raw_value))
    /\ UNCHANGED <<known_class_result, q_type_back, q_class_back>>
    /\ KindFrame

\* QClass::new(raw_value).to_known_class()
ToKnownClass ==
    /\ known_class_result = NotCalled
    /\ known_class_result' = to_known_class(QClass_new(raw_value))
    /\ UNCHANGED <<known_type_result, q_type_back, q_class_back>>
    /\ KindFrame

\* QType::from(k) of the known type the value mapped to
QTypeFrom ==
    /\ known_type_result.tag = "Some"
    /\ q_type_back = NotCalled
    /\ q_type_back' = Ok(QType_from(known_type_result.val))
    /\ UNCHANGED <<known_type_result, known_class_result, q_class_back>>
    /\ KindFrame

\* QClass::from(k) of the known class the value mapped to
QClassFrom ==
    /\ known_class_result.tag = "Some"
    /\ q_class_back = NotCalled
    /\ q_class_back' = Ok(QClass_from(known_class_result.val))
    /\ UNCHANGED <<known_type_result, known_class_result, q_type_back>>
    /\ KindFrame

NextKinds == ToKnownType \/ ToKnownClass \/ QTypeFrom \/ QClassFrom

SpecKinds == InitKinds /\ [][NextKinds]_vars

(***************************************************************************)
(* Properties of the header codec.                                         *)
(***************************************************************************)
\* Reference reading of the wire layout: bit i of a 16-bit word, a bit field.
Bit(w, i) == (w \div (2 ^ i)) % 2
Field(w, lo, width) == (w \div (2 ^ lo)) % (2 ^ width)
FlagsWordOf(b) == 256 * b[3] + b[4]
HeaderCalled == header_result # None

\* C5: Header::try_from(b) succeeds if and only if len(b) >= 12 and the
\* OPCODE field (bits 14-11) is 0, 1 or 2, the Z field (bits 6-4) is 0 and the
\* RCODE field (bits 3-0) is in 0..5; no other part of the buffer matters.
C5_SucceedsIffFieldsLegal ==
    HeaderCalled =>
        (header_result.tag = "Ok" <=>
            IF Len(value) >= 12
            THEN /\ Field(FlagsWordOf(value), 11, 4) \in {0, 1, 2}
                 /\ Field(FlagsWordOf(value), 4, 3) = 0
                 /\ Field(FlagsWordOf(value), 0, 4) \in 0..5
            ELSE FALSE)

C5_Witness ==
    /\ HeaderCalled
    /\ header_result.tag = "Ok"
    /\ Len(value) > 12
    /\ Bit(FlagsWordOf(value), 15) = 1
    /\ Bit(FlagsWordOf(value), 7) = 1
    /\ value[1] = 1

\* C6: on success every field equals the reference decode of the wire
\* layout: id from bytes 0-1, QR from bit 15, OPCODE from bits 14-11, AA, TC,
\* RD, RA from bits 10, 9, 8, 7, RCODE from bits 3-0, and the four counts from
\* bytes 4-5, 6-7, 8-9, 10-11, all big-endian.
C6_FieldsMatchWireLayout ==
    (HeaderCalled /\ header_result.tag = "Ok") =>
        LET h == header_result.val
            w == FlagsWordOf(value)
        IN  /\ h.id = 256 * value[1] + value[2]
            /\ (h.qr = "Response") <=> (Bit(w, 15) = 1)
            /\ h.qr \in {"Query", "Response"}
            /\ OpCodeNumber(h.op_code) = Field(w, 11, 4)
            /\ h.aa <=> (Bit(w, 10) = 1)
            /\ h.tc <=> (Bit(w, 9) = 1)
            /\ h.rd <=> (Bit(w, 8) = 1)
            /\ h.ra <=> (Bit(w, 7) = 1)
            /\ RCodeNumber(h.r_code) = Field(w, 0, 4)
            /\ h.qd_count = 256 * value[5] + value[6]
            /\ h.an_count = 256 * value[7] + value[8]
            /\ h.ns_count = 256 * value[9] + value[10]
            /\ h.ar_count = 256 * value[11] + value[12]

C6_Witness ==
    /\ HeaderCalled
    /\ header_result.tag = "Ok"
    /\ header_result.val.tc
    /\ ~header_result.val.aa
    /\ header_result.val.op_code = "Status"
    /\ header_result.val.r_code = "Refused"
    /\ header_result.val.id = 258
    /\ header_result.val.ar_count = 2314

\* C7: for a buffer of at least 12 bytes the first failing flag field is
\* reported in the order OPCODE, Z, RCODE: an unsupported OPCODE gives the
\* opcode error whatever Z and RCODE are, a non-zero Z with a legal OPCODE
\* gives the Z error whatever RCODE is, and the RCODE error is returned only
\* when OPCODE and Z are both legal.
C7_FirstFailingFieldReported ==
    (HeaderCalled /\ Len(value) >= 12) =>
        LET w == FlagsWordOf(value)
            opBad == Field(w, 11, 4) \notin {0, 1, 2}
            zBad == Field(w, 4, 3) # 0
            rBad == Field(w, 0, 4) \notin 0..5
        IN  /\ opBad =>
                /\ header_result.tag = "Err"
                /\ header_result.error.kind = "OpCodeTryFromError"
            /\ (~opBad /\ zBad) =>
                /\ header_result.tag = "Err"
                /\ header_result.error.kind = "ZTryFromError"
            /\ (~opBad /\ ~zBad /\ rBad) =>
                /\ header_result.tag = "Err"
                /\ header_result.error.kind = "RCodeTryFromError"
            /\ (header_result.tag = "Err"
                    /\ header_result.error.kind = "RCodeTryFromError") =>
                (~opBad /\ ~zBad)

C7_Witness ==
    /\ HeaderCalled
    /\ Len(value) >= 12
    /\ Field(FlagsWordOf(value), 11, 4) = 7
    /\ Field(FlagsWordOf(value), 4, 3) = 4
    /\ Field(FlagsWordOf(value), 0, 4) = 12
    /\ header_result.error.kind = "OpCodeTryFromError"

\* C8: a buffer shorter than 12 bytes, the empty one included, fails with
\* InsufficientHeaderBytes carrying its actual length, whatever its bytes
\* are; a buffer of 12 bytes or more never gets that error.
C8_InsufficientBytesCarriesLength ==
    HeaderCalled =>
        IF Len(value) < 12
        THEN header_result =
                Err([kind |-> "InsufficientHeaderBytes", len |-> Len(value)])
        ELSE ~(/\ header_result.tag = "Err"
               /\ header_result.error.kind = "InsufficientHeaderBytes")

C8_Witness ==
    /\ HeaderCalled
    /\ Len(value) = 7
    /\ value[3] = 56
    /\ value[4] = 32
    /\ header_result.tag = "Err"
    /\ header_result.error.len = 7

(***************************************************************************)
(* Properties of the flag-field conversions.                               *)
(***************************************************************************)
\* C9: the opcode and rcode errors carry the field value, not the flags
\* word: OpCode::try_from fails exactly when (flags >> 11) mod 16 is in 3..15
\* and then carries that value; RCode::try_from fails exactly when
\* flags mod 16 is in 6..15 and then carries that value.
C9_ErrorsCarryFieldValue ==
    /\ op_code_result # None =>
        LET v == Field(flags, 11, 4) IN
        IF v >= 3
        THEN op_code_result =
                Err([kind |-> "OpCodeTryFromError", unsupported |-> v])
        ELSE op_code_result.tag = "Ok"
    /\ r_code_result # None =>
        LET v == Field(flags, 0, 4) IN
        IF v >= 6
        THEN r_code_result =
                Err([kind |-> "RCodeTryFromError", unsupported |-> v])
        ELSE r_code_result.tag = "Ok"

C9_Witness ==
    /\ op_code_result # None
    /\ r_code_result # None
    /\ flags \div 32768 = 1
    /\ Field(flags, 4, 3) = 7
    /\ op_code_result.tag = "Err"
    /\ op_code_result.error.unsupported = 15
    /\ r_code_result.tag = "Err"
    /\ r_code_result.error.unsupported = 12

(***************************************************************************)
(* Properties of the question decoder.                                     *)
(***************************************************************************)
\* Reference reading of the name encoded linearly at index p of b: the
\* labels up to the first zero byte ("zero") or pointer marker ("pointer"),
\* and the index of the first byte after that zero or 2-byte pointer.
RECURSIVE LinearName(_, _)
LinearName(b, p) ==
    IF p >= Len(b)
    THEN [labels |-> <<>>, end |-> p, kind |-> "truncated"]
    ELSE LET n == b[p + 1] IN
         IF n >= 192 THEN [labels |-> <<>>, end |-> p + 2, kind |-> "pointer"]
         ELSE IF n = 0 THEN [labels |-> <<>>, end |-> p + 1, kind |-> "zero"]
         ELSE IF p + 1 + n > Len(b)
         THEN [labels |-> <<>>, end |-> p, kind |-> "truncated"]
         ELSE LET rest == LinearName(b, p + 1 + n) IN
              [labels |-> <<SubSeq(b, p + 2, p + 1 + n)>> \o rest.labels,
               end |-> rest.end,
               kind |-> rest.kind]

\* Reference label grammar: 1 to 63 bytes, a letter first, a letter or digit
\* last, letters, digits and hyphens inside.
Letter(c) == c \in 65..90 \cup 97..122
Digit(c) == c \in 48..57
GrammarLabel(l) ==
    /\ Len(l) \in 1..63
    /\ Letter(l[1])
    /\ Letter(l[Len(l)]) \/ Digit(l[Len(l)])
    /\ \A i \in 1..Len(l) : Letter(l[i]) \/ Digit(l[i]) \/ l[i] = 45

RECURSIVE WireLength(_)
WireLength(ls) == IF ls = <<>> THEN 0 ELSE 1 + Len(Head(ls)) + WireLength(Tail(ls))

BigEndian(b, i) == 256 * b[i + 1] + b[i + 2]
Returned == pc = "done"

\* C1: when message_bytes[offset..] holds n >= 1 grammar-valid labels, a zero
\* byte, 2 bytes QTYPE and 2 bytes QCLASS, the call runs to its end and
\* succeeds, QNAME holds exactly those labels in wire order, and
\* bytes_read = sum(1 + L_i) + 1 + 4, whatever offset is.
C1_UncompressedNameDecoded ==
    LET name == LinearName(message_bytes, offset) IN
    (/\ name.kind = "zero"
     /\ Len(name.labels) >= 1
     /\ \A i \in 1..Len(name.labels) : GrammarLabel(name.labels[i])
     /\ name.end + 4 <= Len(message_bytes)) =>
        IF Returned
        THEN /\ result.tag = "Ok"
             /\ result.val.question.q_name = name.labels
             /\ result.val.bytes_read = WireLength(name.labels) + 1 + 4
        ELSE ENABLED NextQuestion

C1_Witness ==
    /\ Returned
    /\ result.tag = "Ok"
    /\ ~using_compression
    /\ offset = 3
    /\ result.val.question.q_name = <<LabelB1, LabelA>>
    /\ result.val.bytes_read = 10

\* C2: the first pointer adds exactly 2 to bytes_read, nothing visited after
\* it in the name changes bytes_read, and a successful call on k >= 0 local
\* labels followed by a pointer returns bytes_read = sum(1 + L_i) + 2 + 4,
\* whatever lies at the target and however many pointers are chained.
C2_BytesReadFrozenByFirstPointer ==
    /\ [][/\ (~using_compression /\ using_compression') =>
                bytes_read' = bytes_read + 2
          /\ (using_compression /\ pc = "name") => bytes_read' = bytes_read
         ]_vars
    /\ [](LET name == LinearName(message_bytes, offset) IN
          (Returned /\ result.tag = "Ok" /\ name.kind = "pointer") =>
              /\ using_compression
              /\ result.val.bytes_read = WireLength(name.labels) + 2 + 4)

\* a call that succeeded through two chained pointers after a local label
C2_Witness ==
    LET name == LinearName(message_bytes, offset)
        target == (message_bytes[name.end - 1] % 64) * 256 + message_bytes[name.end]
    IN  /\ Returned
        /\ result.tag = "Ok"
        /\ name.kind = "pointer"
        /\ Len(name.labels) = 1
        /\ LinearName(message_bytes, target).kind = "pointer"
        /\ LinearName(message_bytes, target).labels = <<>>
        /\ Len(result.val.question.q_name) = 2
        /\ result.val.bytes_read = WireLength(name.labels) + 6

\* C3: on success QTYPE is the big-endian value of the two bytes right after
\* the name's encoding at the caller's linear position (after the zero byte,
\* or after the first pointer), QCLASS that of the next two, never the bytes
\* after the zero at a pointer target, and they add 2 + 2 to bytes_read.
C3_FieldsFollowLinearName ==
    (Returned /\ result.tag = "Ok") =>
        LET name == LinearName(message_bytes, offset) IN
        /\ name.kind \in {"zero", "pointer"}
        /\ name.end + 4 <= Len(message_bytes)
        /\ result.val.question.q_type.value = BigEndian(message_bytes, name.end)
        /\ result.val.question.q_class.value =
                BigEndian(message_bytes, name.end + 2)
        /\ result.val.bytes_read = (name.end - offset) + 2 + 2

\* a compressed name whose target's zero byte is followed by other bytes
C3_Witness ==
    /\ Returned
    /\ result.tag = "Ok"
    /\ using_compression
    /\ pos + 4 <= Len(message_bytes)
    /\ BigEndian(message_bytes, pos) # result.val.question.q_type.value
    /\ BigEndian(message_bytes, pos + 2) # result.val.question.q_class.value
    /\ result.val.question.q_type.value = 258
    /\ result.val.question.q_class.value = 772

\* C10: no index outside the buffer is ever used on message_bytes: every
\* call ends with a returned value, Ok or Err, never with an out-of-bounds
\* access.
C10_NoOutOfBoundsAccess ==
    Returned => result.tag \in {"Ok", "Err"}

(***************************************************************************)
(* Properties of the caller's cursor.                                      *)
(***************************************************************************)
\* index of the first byte after the first k questions of the layout
EndOfQuestion(k) == HEADER_BYTES + Len(WireQuestions(SubSeq(layout, 1, k)))

\* C4: starting at byte 12 and adding bytes_read after every successful
\* call, the caller decodes the questions in wire order, each call starts on
\* the first byte of its question, and after it the cursor is the index of
\* the first byte after that question's QCLASS, compressed name or not.
C4_CursorReachesNextQuestion ==
    /\ Len(decoded) <= Len(layout)
    /\ cursor = EndOfQuestion(Len(decoded))
    /\ pc \in {"name", "fields", "done"} => offset = EndOfQuestion(Len(decoded))
    /\ \A k \in 1..Len(decoded) :
        /\ decoded[k].q_type.value = BigEndian(layout[k].fields, 0)
        /\ decoded[k].q_class.value = BigEndian(layout[k].fields, 2)
        /\ Len(decoded[k].q_name) >= Len(layout[k].labels)
        /\ SubSeq(decoded[k].q_name, 1, Len(layout[k].labels)) = layout[k].labels

C4_Witness ==
    /\ Len(layout) = 2
    /\ Len(decoded) = 2
    /\ layout[1].labels = <<LabelB1, LabelA>>
    /\ layout[1].end = <<0>>
    /\ layout[2].labels = <<LabelA>>
    /\ layout[2].end = WirePointer(12)
    /\ decoded[2].q_name = <<LabelA, LabelB1, LabelA>>
    /\ cursor = Len(message_bytes)

(***************************************************************************)
(* Properties of the domain model.                                         *)
(***************************************************************************)
\* a Domain as the data model describes it: at least one label, every label
\* in the label grammar
WellFormedDomain(labels) ==
    /\ Len(labels) >= 1
    /\ \A i \in 1..Len(labels) : GrammarLabel(labels[i])

\* C11: every Domain the library returns, from Domain::try_from or as the
\* QNAME of a successful parse_question, has at least one label, and every
\* one of its labels is in the label grammar.
C11_ReturnedDomainsWellFormed ==
    /\ domain_result.tag = "Ok" => WellFormedDomain(domain_result.val)
    /\ (Returned /\ result.tag = "Ok") =>
           WellFormedDomain(result.val.question.q_name)

\* Reference reading of a dotted text: the k-th segment lies between the
\* (k-1)-th and the k-th dot, the text's two ends counting as dots.
DotsIn(s) == {i \in 1..Len(s) : s[i] = 46}
NthDot(s, k) ==
    IF k = 0 THEN 0
    ELSE IF k > Cardinality(DotsIn(s)) THEN Len(s) + 1
    ELSE CHOOSE i \in DotsIn(s) : Cardinality({j \in DotsIn(s) : j <= i}) = k
SegmentsOf(s) ==
    [k \in 1..(Cardinality(DotsIn(s)) + 1) |->
        SubSeq(s, NthDot(s, k - 1) + 1, NthDot(s, k) - 1)]
InvalidSegments(s) ==
    {k \in 1..(Cardinality(DotsIn(s)) + 1) : ~GrammarLabel(SegmentsOf(s)[k])}
LeftmostInvalid(s) ==
    CHOOSE k \in InvalidSegments(s) : \A j \in InvalidSegments(s) : k <= j

DomainCalled == domain_result # None

\* C12: on a non-empty input Domain::try_from succeeds exactly when every
\* segment between the dots is a valid label, and then returns the segments
\* in order; when it fails, the error is the one parse_label gives for the
\* leftmost invalid segment, whatever the later segments are.
C12_LeftmostInvalidSegmentReported ==
    (DomainCalled /\ Len(domain_value) > 0) =>
        IF InvalidSegments(domain_value) = {}
        THEN domain_result = Ok(SegmentsOf(domain_value))
        ELSE /\ domain_result.tag = "Err"
             /\ domain_result =
                    parse_label(SegmentsOf(domain_value)[LeftmostInvalid(domain_value)])

\* "a.1.<0xFF>": the digit label is reported, not the later non-UTF-8 one
C12_Witness ==
    /\ domain_value = <<97, 46, 49, 46, 255>>
    /\ domain_result = Err([kind |-> "LabelInvalidFormat", label |-> <<49>>])

\* C13: round trip: whenever Domain::try_from(s) succeeded with a domain d,
\* d.to_string() is exactly s, for one label and for several.
C13_ToStringIsInputAgain ==
    rendered.tag = "Ok" =>
        /\ domain_result.tag = "Ok"
        /\ rendered.val = domain_value

\* "a.b1" parsed into two labels and rendered
C13_Witness ==
    /\ domain_value = <<97, 46, 98, 49>>
    /\ domain_result = Ok(<<LabelA, LabelB1>>)
    /\ rendered = Ok(<<97, 46, 98, 49>>)

(***************************************************************************)
(* Properties of the label functions.                                      *)
(***************************************************************************)
LetterDigitHyphen(c) == Letter(c) \/ Digit(c) \/ c = 45

\* C14: bytes_are_label(b) is true exactly when b has 1 to 63 bytes, a letter
\* first, a letter or digit last and only letters, digits and hyphens in
\* between; a single byte is a label exactly when it is a letter; lengths 0
\* and 64 are never labels; bytes_are_ldh_str(b) is true exactly when every
\* byte is a letter, digit or hyphen, hence true for the empty input.
C14_BytesAreLabelIsTheGrammar ==
    LET b == label_bytes
        n == Len(label_bytes)
    IN  /\ is_label_result # None =>
            /\ is_label_result.val =
                   /\ n >= 1
                   /\ n <= 63
                   /\ Letter(b[1])
                   /\ Letter(b[n]) \/ Digit(b[n])
                   /\ \A i \in 2..(n - 1) : LetterDigitHyphen(b[i])
            /\ n = 1 => is_label_result.val = Letter(b[1])
            /\ n \in {0, 64} => is_label_result.val = FALSE
        /\ is_ldh_result # None =>
            /\ is_ldh_result.val = \A i \in 1..n : LetterDigitHyphen(b[i])
            /\ n = 0 => is_ldh_result.val = TRUE

\* a 63-byte label with hyphens inside and a digit last
C14_Witness ==
    /\ label_bytes = LongLabel(97, 45, 49, 63)
    /\ is_label_result = Ok(TRUE)
    /\ is_ldh_result = Ok(TRUE)

(***************************************************************************)
(* Properties of the question decoder's error handling.                    *)
(***************************************************************************)
\* the loop stands on the length byte of a label that lies within the buffer
OnLabel ==
    /\ pc = "name"
    /\ InBounds(message_bytes, pos)
    /\ ~is_pointer(At(message_bytes, pos))
    /\ At(message_bytes, pos) # 0
    /\ pos + 1 + At(message_bytes, pos) <= Len(message_bytes)
\* the bytes of that label
LabelOnWire ==
    SubSeq(message_bytes, pos + 2, pos + 1 + At(message_bytes, pos))

DomainErrorKinds ==
    {"DomainEmpty", "LabelEmpty", "LabelTooLong", "LabelInvalidEncoding",
     "LabelInvalidFormat"}

\* C15: the first label of the traversal that the Domain rejects, local or
\* reached through a pointer, ends the call with that label's Domain error:
\* no Question, no bytes_read, QTYPE and QCLASS are not read, and no other
\* step of the call (a pointer, the terminator, the fields) yields an error.
C15_FirstRejectedLabelEndsCall ==
    /\ [][/\ OnLabel =>
                IF parse_label(LabelOnWire).tag = "Err"
                THEN /\ result' = parse_label(LabelOnWire)
                     /\ pc' = "done"
                ELSE result' = None
          /\ result'.tag = "Err" =>
                /\ OnLabel
                /\ parse_label(LabelOnWire).tag = "Err"
          /\ result.tag # "Err"
         ]_vars
    /\ [](result.tag = "Err" =>
            /\ pc = "done"
            /\ DOMAIN result = {"tag", "error"}
            /\ result.error.kind \in DomainErrorKinds)

\* "a", then a pointer to the label "1" in front of the question: the digit
\* label is the first rejected one and its error is the call's result
C15_Witness ==
    /\ message_bytes = WireLabel(LabelDigit) \o WireLabel(LabelA) \o WirePointer(0)
    /\ offset = 2
    /\ using_compression
    /\ q_name = <<LabelA>>
    /\ pc = "done"
    /\ result = Err([kind |-> "LabelInvalidFormat", label |-> LabelDigit])

(***************************************************************************)
(* Properties of Domain::try_from's errors.                                *)
(***************************************************************************)
LeadingDot(s) == Len(s) >= 1 /\ s[1] = 46
TrailingDot(s) == Len(s) >= 1 /\ s[Len(s)] = 46
DoubleDot(s) == \E i \in 1..(Len(s) - 1) : s[i] = 46 /\ s[i + 1] = 46
HasEmptySegment(s) == LeadingDot(s) \/ TrailingDot(s) \/ DoubleDot(s)

\* C16 as stated: every input with a leading dot, a trailing dot or two
\* consecutive dots fails with LabelEmpty.
C16_EmptySegmentAlwaysLabelEmpty ==
    (DomainCalled /\ HasEmptySegment(domain_value)) =>
        domain_result = Err([kind |-> "LabelEmpty"])

\* C16: every input with a leading dot, a trailing dot or two consecutive
\* dots fails; the error is LabelEmpty when no segment to the left of the
\* first empty segment is invalid (always so for a leading dot), and
\* otherwise the error of that earlier invalid segment.
C16_EmptySegmentFails ==
    (DomainCalled /\ HasEmptySegment(domain_value)) =>
        LET segs == SegmentsOf(domain_value)
            first_empty == CHOOSE k \in 1..Len(segs) :
                               /\ segs[k] = <<>>
                               /\ \A j \in 1..(k - 1) : segs[j] # <<>>
        IN  /\ domain_result.tag = "Err"
            /\ (\A j \in 1..(first_empty - 1) : GrammarLabel(segs[j])) <=>
                   domain_result = Err([kind |-> "LabelEmpty"])
            /\ LeadingDot(domain_value) =>
                   domain_result = Err([kind |-> "LabelEmpty"])

\* "a..b1": the empty label between the two dots is reported
C16_Witness ==
    /\ domain_value = <<97, 46, 46, 98, 49>>
    /\ domain_result = Err([kind |-> "LabelEmpty"])

\* C17: Domain::try_from fails with DomainEmpty on the empty input (not with
\* LabelEmpty), and on no other input.
C17_DomainEmptyIffEmptyInput ==
    DomainCalled =>
        /\ Len(domain_value) = 0 <=> domain_result = Err([kind |-> "DomainEmpty"])
        /\ domain_result.tag = "Err" =>
               (domain_result.error.kind = "DomainEmpty" <=> domain_value = <<>>)

C17_Witness ==
    /\ domain_value = <<>>
    /\ domain_result = Err([kind |-> "DomainEmpty"])

\* a grammar-valid label of exactly 63 bytes; such a label and one more valid
\* character
IsLabel63(seg) == Len(seg) = 63 /\ GrammarLabel(seg)
IsLabel63PlusOne(seg) ==
    /\ Len(seg) = 64
    /\ GrammarLabel(SubSeq(seg, 1, 63))
    /\ LetterDigitHyphen(seg[64])

\* C18: a grammar-valid label of exactly 63 bytes is accepted and returned
\* unchanged, alone or as a segment of a domain; the same label with one more
\* valid character is rejected with LabelTooLong carrying all its 64 bytes,
\* alone or as the first invalid segment of a domain.
C18_LengthLimitIs63 ==
    DomainCalled =>
        LET segs == SegmentsOf(domain_value) IN
        \A k \in 1..Len(segs) :
            (\A j \in 1..(k - 1) : GrammarLabel(segs[j])) =>
                /\ IsLabel63(segs[k]) =>
                       IF \A j \in (k + 1)..Len(segs) : GrammarLabel(segs[j])
                       THEN /\ domain_result.tag = "Ok"
                            /\ domain_result.val[k] = segs[k]
                       ELSE /\ domain_result.tag = "Err"
                            /\ "label" \in DOMAIN domain_result.error =>
                                   domain_result.error.label # segs[k]
                /\ IsLabel63PlusOne(segs[k]) =>
                       domain_result =
                           Err([kind |-> "LabelTooLong", label |-> segs[k]])

\* "a.<63 bytes>.<64 bytes>": the 63-byte label passes, the 64-byte one is
\* reported whole
C18_Witness ==
    /\ domain_value = <<97, 46>> \o Label63 \o <<46>> \o Label64
    /\ domain_result = Err([kind |-> "LabelTooLong", label |-> Label64])

\* Reference reading of UTF-8: the text starts on a character, and every
\* character is a lead byte followed by exactly the continuation bytes it
\* calls for (no overlong form, no surrogate, nothing above U+10FFFF).
Continues(b, i) == i <= Len(b) /\ b[i] \in 128..191
CharacterAt(b, i) ==
    LET c == b[i] IN
    \/ c < 128 /\ ~Continues(b, i + 1)
    \/ /\ c \in 194..223
       /\ Continues(b, i + 1)
       /\ ~Continues(b, i + 2)
    \/ /\ c \in 224..239
       /\ Continues(b, i + 1)
       /\ c = 224 => b[i + 1] >= 160
       /\ c = 237 => b[i + 1] <= 159
       /\ Continues(b, i + 2)
       /\ ~Continues(b, i + 3)
    \/ /\ c \in 240..244
       /\ Continues(b, i + 1)
       /\ c = 240 => b[i + 1] >= 144
       /\ c = 244 => b[i + 1] <= 143
       /\ Continues(b, i + 2)
       /\ Continues(b, i + 3)
       /\ ~Continues(b, i + 4)
WellFormedUtf8(b) ==
    /\ ~Continues(b, 1)
    /\ \A i \in 1..Len(b) : ~Continues(b, i) => CharacterAt(b, i)

\* C19: parse_label fails with LabelInvalidEncoding exactly on the byte
\* strings that are not valid UTF-8, whatever their length; a segment of 1 to
\* 63 bytes that is valid UTF-8 but holds a non-ASCII character fails with
\* LabelInvalidFormat carrying the segment.
C19_NonAsciiIsFormatNotEncoding ==
    label_result # None =>
        /\ ~WellFormedUtf8(label_bytes) <=>
               /\ label_result.tag = "Err"
               /\ label_result.error.kind = "LabelInvalidEncoding"
        /\ ( /\ Len(label_bytes) \in 1..63
             /\ WellFormedUtf8(label_bytes)
             /\ \E i \in 1..Len(label_bytes) : label_bytes[i] >= 128 ) =>
               label_result =
                   Err([kind |-> "LabelInvalidFormat", label |-> label_bytes])

\* "a" followed by U+00E9
C19_Witness ==
    /\ label_bytes = <<97, 195, 169>>
    /\ label_result = Err([kind |-> "LabelInvalidFormat", label |-> <<97, 195, 169>>])

(***************************************************************************)
(* Properties of the QTYPE and QCLASS mappings.                            *)
(***************************************************************************)
\* C20: for every 16-bit v, QType::new(v).to_known_type() is Some(k) exactly
\* for v in 1..16 and 252..255, k being the one of the 20 variants numbered
\* v, and None otherwise; QClass::new(v).to_known_class() is Some(k) exactly
\* for v in {1, 2, 3, 4, 255}, k being the one of the 5 variants numbered v,
\* and None otherwise; QType::from(k) and QClass::from(k) give the value
\* that maps back to k.
C20_KnownKindsArePermissive ==
    /\ Cardinality(KnownQType) = 20
    /\ Cardinality(KnownQClass) = 5
    /\ known_type_result # NotCalled =>
           IF raw_value \in (1..16) \cup (252..255)
           THEN /\ known_type_result.tag = "Some"
                /\ known_type_result.val \in KnownQType
                /\ KnownQType_as_u16(known_type_result.val) = raw_value
           ELSE known_type_result = None
    /\ known_class_result # NotCalled =>
           IF raw_value \in {1, 2, 3, 4, 255}
           THEN /\ known_class_result.tag = "Some"
                /\ known_class_result.val \in KnownQClass
                /\ KnownQClass_as_u16(known_class_result.val) = raw_value
           ELSE known_class_result = None
    /\ q_type_back # NotCalled =>
           /\ q_type_back.val = QType_new(raw_value)
           /\ to_known_type(q_type_back.val) = known_type_result
           /\ QType_eq_known(q_type_back.val, known_type_result.val)
    /\ q_class_back # NotCalled =>
           /\ q_class_back.val = QClass_new(raw_value)
           /\ to_known_class(q_class_back.val) = known_class_result
           /\ QClass_eq_known(q_class_back.val, known_class_result.val)

\* 255 is ANY as a type and as a class, and both map back
C20_Witness ==
    /\ raw_value = 255
    /\ known_type_result = Some("ANY")
    /\ known_class_result = Some("ANY")
    /\ q_type_back = Ok([value |-> 255])
    /\ q_class_back = Ok([value |-> 255])

(***************************************************************************)
(* Properties relating the label functions.                                *)
(***************************************************************************)
LabelErrorKind ==
    IF label_result.tag = "Err" THEN label_result.error.kind ELSE "none"

\* C29: parse_label checks UTF-8 validity, then emptiness, then length, then
\* the grammar, and reports the first check that fails: bytes that are not
\* valid UTF-8 give LabelInvalidEncoding even when longer than 63 bytes;
\* valid UTF-8 longer than 63 bytes gives LabelTooLong even when it also
\* breaks the grammar; LabelInvalidFormat is given only for valid UTF-8 of
\* 1 to 63 bytes.
C29_FirstFailingCheckReported ==
    label_result # None =>
        LET n == Len(label_bytes) IN
        /\ ~WellFormedUtf8(label_bytes) => LabelErrorKind = "LabelInvalidEncoding"
        /\ (WellFormedUtf8(label_bytes) /\ n = 0) => LabelErrorKind = "LabelEmpty"
        /\ (WellFormedUtf8(label_bytes) /\ n > 63) =>
               label_result = Err([kind |-> "LabelTooLong", label |-> label_bytes])
        /\ LabelErrorKind = "LabelInvalidFormat" =>
               /\ WellFormedUtf8(label_bytes)
               /\ n \in 1..63
               /\ ~GrammarLabel(label_bytes)

\* 64 bytes that start with a digit and end with a hyphen: too long wins
C29_Witness ==
    /\ label_bytes = LongLabel(49, 45, 45, 64)
    /\ label_result = Err([kind |-> "LabelTooLong", label |-> label_bytes])

\* C30: bytes_are_label(b) is true exactly when parse_label(b) returns Ok, and
\* then the label text returned is b itself.
C30_PredicateAndParserAgree ==
    (is_label_result # None /\ label_result # None) =>
        /\ is_label_result.val <=> label_result.tag = "Ok"
        /\ label_result.tag = "Ok" => label_result.val = label_bytes

\* both accept a 63-byte label; both were called on it
C30_Witness ==
    /\ label_bytes = Label63
    /\ is_label_result = Ok(TRUE)
    /\ label_result = Ok(Label63)


(***************************************************************************)
(* Header decoding as an injection on the first twelve bytes.              *)
(***************************************************************************)
FlagNumber(f) == IF f THEN 1 ELSE 0

\* the flags word rebuilt from the decoded fields, Z contributing 0
FlagsWordFrom(h) ==
    QRNumber(h.qr) * 2 ^ 15 + OpCodeNumber(h.op_code) * 2 ^ 11
        + FlagNumber(h.aa) * 2 ^ 10 + FlagNumber(h.tc) * 2 ^ 9
        + FlagNumber(h.rd) * 2 ^ 8 + FlagNumber(h.ra) * 2 ^ 7
        + 0 * 2 ^ 4 + RCodeNumber(h.r_code)

HighByte(n) == n \div 256
LowByte(n) == n % 256

\* the twelve bytes rebuilt from the decoded fields alone
HeaderBytesFrom(h) ==
    <<HighByte(h.id), LowByte(h.id),
      HighByte(FlagsWordFrom(h)), LowByte(FlagsWordFrom(h)),
      HighByte(h.qd_count), LowByte(h.qd_count),
      HighByte(h.an_count), LowByte(h.an_count),
      HighByte(h.ns_count), LowByte(h.ns_count),
      HighByte(h.ar_count), LowByte(h.ar_count)>>

\* C27: on every successful Header::try_from(b) the flags word equals
\* QR*2^15 + OPCODE*2^11 + AA*2^10 + TC*2^9 + RD*2^8 + RA*2^7 + 0*2^4 + RCODE
\* of the decoded fields, and bytes 0..11 of b are a function of the decoded
\* Header alone (so equal Headers come from buffers that agree on bytes
\* 0..11); and whenever b has at least 12 bytes the result, success or error,
\* is the result of decoding its first 12 bytes only.
C27_HeaderDecodingInjective ==
    HeaderCalled =>
        /\ header_result.tag = "Ok" =>
              /\ FlagsWordFrom(header_result.val) = FlagsWordOf(value)
              /\ HeaderBytesFrom(header_result.val) = SubSeq(value, 1, 12)
        /\ Len(value) >= 12 =>
              header_result = Header_try_from(SubSeq(value, 1, 12))

\* a response with every flag set, decoded from a buffer longer than 12 bytes
C27_Witness ==
    /\ HeaderCalled
    /\ header_result.tag = "Ok"
    /\ Len(value) = 13
    /\ value[13] = 255
    /\ header_result.val.qr = "Response"
    /\ header_result.val.rd
    /\ header_result.val.ra
    /\ header_result.val.r_code = "NameError"
    /\ HeaderBytesFrom(header_result.val) = SubSeq(value, 1, 12)


(***************************************************************************)
(* Incremental construction against whole-string parsing.                  *)
(***************************************************************************)
\* C28: for every QNAME d returned by a successful parse_question, parsing
\* the rendered form of d gives d back:
\* Domain::try_from(d.to_string()) == Ok(d).
C28_RenderedNameParsesBack ==
    (Returned /\ result.tag = "Ok") =>
        LET d == result.val.question.q_name IN
        Domain_try_from_string(Domain_fmt(d)) = Ok(d)


(***************************************************************************)
(* Names read through compression pointers.                                *)
(***************************************************************************)
\* the target of the pointer whose two bytes start at index p
PointerTarget(b, p) == (b[p + 1] % 64) * 256 + b[p + 2]

\* Reference reading of a chained name: the labels laid out from p up to the
\* first zero byte or pointer, then, after a pointer, the chained name at its
\* target.  jumps bounds the number of pointers followed.
RECURSIVE ChainedName(_, _, _)
ChainedName(b, p, jumps) ==
    LET here == LinearName(b, p) IN
    IF here.kind = "pointer" /\ jumps > 0
    THEN here.labels \o ChainedName(b, PointerTarget(b, here.end - 2), jumps - 1)
    ELSE here.labels

TestName == <<Test, Example, Com>>

\* C22: on success QNAME is the sequence of labels the read cursor visits,
\* in visiting order: the labels laid out from the offset, then those at the
\* first pointer's target, then those at every further pointer's target, up
\* to the first zero byte reached.  In particular the test message with one
\* pointer and the one with two chained pointers both give test.example.com.
C22_NameFollowsPointerChain ==
    (Returned /\ result.tag = "Ok") =>
        /\ result.val.question.q_name =
               ChainedName(message_bytes, offset, Len(message_bytes))
        /\ (message_bytes = CompressedMessage /\ offset = 16) =>
               result.val.question.q_name = TestName
        /\ (message_bytes = NestedCompressedMessage /\ offset = 15) =>
               result.val.question.q_name = TestName

\* the nested test message decoded: a label before each of two pointers
C22_Witness ==
    /\ Returned
    /\ result.tag = "Ok"
    /\ message_bytes = NestedCompressedMessage
    /\ offset = 15
    /\ result.val.question.q_name = TestName
    /\ result.val.bytes_read = 11


\* the byte under the read cursor at the top of a loop iteration
CursorInBuffer == pc = "name" /\ pos < Len(message_bytes)
CursorByte == message_bytes[pos + 1]

\* C23: the byte at the read cursor is taken as a compression pointer exactly
\* when its two high bits are 11 (192..255).  Such a step adds no label and
\* sets the compression flag, and when the pointer's second byte is in the
\* buffer it moves the cursor to (b mod 64) * 256 + next byte, a value in
\* 0..16383 counted from byte 0 of message_bytes, whatever the offset and
\* the pointer's own position are.  Any other byte leaves the compression
\* flag alone and moves the cursor forward.
C23_PointerIffHighBitsSet ==
    [][CursorInBuffer =>
          IF CursorByte \in 192..255
          THEN /\ using_compression'
               /\ q_name' = q_name
               /\ IF pos + 1 < Len(message_bytes)
                  THEN /\ pc' = "name"
                       /\ pos' = (CursorByte % 64) * 256 + message_bytes[pos + 2]
                       /\ pos' \in 0..16383
                  ELSE result' = Panic
          ELSE /\ using_compression' = using_compression
               /\ question_pos' \in {question_pos, pos + 1}
               /\ pos' > pos
      ]_vars

\* a pointer with target bits in its first byte was followed from a position
\* other than the offset, to a target inside the buffer
C23_Witness ==
    /\ pc = "name"
    /\ using_compression
    /\ offset = 0
    /\ question_pos = 5
    /\ message_bytes[4] = 193
    /\ pos = FarTarget
    /\ pos < Len(message_bytes)


(***************************************************************************)
(* Pointer loops.                                                          *)
(***************************************************************************)
\* a pointer lies at index p with both its bytes in the buffer
PointerAt(b, p) == p + 1 < Len(b) /\ b[p + 1] \in 192..255

\* the pointer at p targets its own position, or targets a second pointer
\* whose target is p
PointerLoopAt(b, p) ==
    /\ PointerAt(b, p)
    /\ LET t == PointerTarget(b, p) IN
       \/ t = p
       \/ /\ t # p
          /\ PointerAt(b, t)
          /\ PointerTarget(b, t) = p

MeetsPointerLoop == pc = "name" /\ PointerLoopAt(message_bytes, pos)

\* C24: once the read cursor meets a pointer that targets its own position,
\* or one of two pointers that target each other, the call loops without
\* bound: the next loop iteration can always run and is a pointer step, after
\* it the cursor is again on a pointer of the loop with no label added, and
\* the call has neither returned a result nor an error, nor stopped.
C24_PointerLoopNeverReturns ==
    /\ [][MeetsPointerLoop =>
             /\ pc' = "name"
             /\ result' = None
             /\ q_name' = q_name
             /\ PointerLoopAt(message_bytes', pos')
         ]_vars
    /\ [](MeetsPointerLoop =>
             /\ result = None
             /\ ENABLED ReadPointer
             /\ ~ENABLED ReadOutOfBounds
             /\ ~ENABLED ReadTerminator
             /\ ~ENABLED ReadLabel
             /\ ~ENABLED ReadFields)

\* the cursor went round a pointer that targets itself
C24_Witness ==
    /\ MeetsPointerLoop
    /\ using_compression
    /\ PointerTarget(message_bytes, pos) = pos
    /\ question_pos = pos + 2

\* the cursor is on the second of two pointers that target each other
C24_WitnessMutual ==
    /\ MeetsPointerLoop
    /\ using_compression
    /\ PointerTarget(message_bytes, pos) # pos
    /\ question_pos = PointerTarget(message_bytes, pos) + 2


(***************************************************************************)
(* Length bytes with the high bits 01 or 10.                               *)
(***************************************************************************)
\* the bytes a length byte n at the cursor announces, when the buffer has them
AnnouncedLabel == SubSeq(message_bytes, pos + 2, pos + 1 + CursorByte)

\* C26: a byte 64..191 at the read cursor is taken as a label length, never
\* as a pointer (no jump, the compression flag is left alone), and the step
\* that meets it ends the call without success: when the buffer holds that
\* many following bytes the result is LabelTooLong carrying them, or
\* LabelInvalidEncoding if they are not valid UTF-8, and otherwise the call
\* stops on the out-of-range slice.  No label longer than 63 bytes is ever
\* in QNAME.
C26_OversizedLengthRejected ==
    /\ [][(CursorInBuffer /\ CursorByte \in 64..191) =>
             /\ using_compression' = using_compression
             /\ question_pos' = question_pos
             /\ pos' = pos + 1
             /\ q_name' = q_name
             /\ pc' = "done"
             /\ IF pos + 1 + CursorByte <= Len(message_bytes)
                THEN IF WellFormedUtf8(AnnouncedLabel)
                     THEN result' = Err([kind |-> "LabelTooLong",
                                         label |-> AnnouncedLabel])
                     ELSE result'.tag = "Err" /\
                          result'.error.kind = "LabelInvalidEncoding"
                ELSE result' = Panic
         ]_vars
    /\ [](\A i \in 1..Len(q_name) : Len(q_name[i]) <= 63)

\* a length byte of 128 reached through a pointer, with its 128 bytes present
C26_Witness ==
    /\ Returned
    /\ offset = 0
    /\ using_compression
    /\ Len(message_bytes) > 128
    /\ message_bytes[3] = 128
    /\ pos = 3
    /\ result = Err([kind |-> "LabelTooLong", label |-> Repeat(97, 128)])


(***************************************************************************)
(* Specification of the loop of parse_question with its iterations         *)
(* counted: one call, one loop iteration per step, and a record of the     *)
(* pointers followed.                                                      *)
(***************************************************************************)
MaxWalkTokens == 3
\* the count stops the model, not the program: no step is taken past it
MaxIterations == 9

WalkTokens ==
    {<<0>>, WireLabel(LabelA), WirePointer(0), WirePointer(2)}
WalkParts == SeqsUpTo(WalkTokens, MaxWalkTokens)

InitWalk ==
    /\ \/ \E ts \in WalkParts, tail \in FreeTails :
            /\ message_bytes = Flatten(ts) \o tail
            /\ \E o \in 0..Len(message_bytes) : StartsCall(o)
       \/ \E c \in TestCases :
            /\ message_bytes = c.bytes
            /\ StartsCall(c.offset)
       \/ \E m \in FarMessages :
            /\ message_bytes = m
            /\ \E o \in 0..MaxStartOffset : StartsCall(o)
    /\ cursor = offset
    /\ layout = <<>>
    /\ decoded = <<>>
    /\ WalkIdle
    /\ InterleavingIdle
    /\ HeaderIdle
    /\ FlagsIdle
    /\ CodecIdle

WalkFrame ==
    UNCHANGED <<message_bytes, offset, caller_vars, header_vars, flag_vars,
                codec_vars, interleaving_vars>>

\* the top of the loop: one more iteration begins
IterationBegins ==
    /\ pc = "name"
    /\ iterations < MaxIterations
    /\ iterations' = iterations + 1

WalkOutOfBounds ==
    /\ IterationBegins
    /\ ~InBounds(message_bytes, pos)
    /\ Becomes(Panicked(Locals))
    /\ UNCHANGED <<followed, revisited>>
    /\ WalkFrame

WalkPointer ==
    /\ IterationBegins
    /\ InBounds(message_bytes, pos)
    /\ is_pointer(At(message_bytes, pos))
    /\ Becomes(PointerStep(message_bytes, Locals))
    /\ IF InBounds(message_bytes, pos + 1)
       THEN /\ followed' = followed \cup {pos}
            /\ revisited' = (revisited \/ pos \in followed)
       ELSE UNCHANGED <<followed, revisited>>
    /\ WalkFrame

WalkTerminator ==
    /\ IterationBegins
    /\ InBounds(message_bytes, pos)
    /\ ~is_pointer(At(message_bytes, pos))
    /\ At(message_bytes, pos) = 0
    /\ Becomes(TerminatorStep(message_bytes, Locals))
    /\ UNCHANGED <<followed, revisited>>
    /\ WalkFrame

WalkLabel ==
    /\ IterationBegins
    /\ InBounds(message_bytes, pos)
    /\ ~is_pointer(At(message_bytes, pos))
    /\ At(message_bytes, pos) # 0
    /\ Becomes(LabelStep(message_bytes, Locals))
    /\ UNCHANGED <<followed, revisited>>
    /\ WalkFrame

WalkFields ==
    /\ pc = "fields"
    /\ Becomes(FieldsStep(message_bytes, Locals))
    /\ UNCHANGED walk_vars
    /\ WalkFrame

NextWalk ==
    \/ WalkOutOfBounds
    \/ WalkPointer
    \/ WalkTerminator
    \/ WalkLabel
    \/ WalkFields

SpecWalk == InitWalk /\ [][NextWalk]_vars

\* the call runs on one thread that takes its next step whenever it has one
SpecWalkFair == SpecWalk /\ WF_vars(NextWalk)

(***************************************************************************)
(* Termination of the loop.                                                *)
(***************************************************************************)
\* between two pointer jumps the read cursor strictly increases
CursorIncreasesBetweenJumps ==
    [][(CursorInBuffer /\ CursorByte < 192 /\ iterations' # iterations) =>
          pos' > pos]_vars

\* the call returned a value or stopped, or else went through a pointer twice
TerminatesUnlessRevisiting == <>(Returned \/ revisited)

\* C25 as stated: the call terminates unless the cursor visits a pointer
\* position twice, the cursor strictly increases between two pointer jumps,
\* and the number of loop iterations is at most
\* (number of distinct pointers followed + 1) * len(message_bytes).
C25_IterationsBoundedByLength ==
    /\ TerminatesUnlessRevisiting
    /\ CursorIncreasesBetweenJumps
    /\ [](~revisited =>
             iterations <= (Cardinality(followed) + 1) * Len(message_bytes))

\* C25: the call terminates (returns a result or an error, or stops on an
\* out-of-range index) whenever the read cursor never visits the same
\* pointer position twice; between two pointer jumps the cursor strictly
\* increases; and the number of loop iterations begun is at most
\* (number of distinct pointers followed + 1) * len(message_bytes) + 1, the
\* last one being the iteration that finds the cursor past the end of the
\* buffer (on an empty buffer it is the only one).
C25_TerminatesWithoutRevisit ==
    /\ TerminatesUnlessRevisiting
    /\ CursorIncreasesBetweenJumps
    /\ [](~revisited =>
             iterations <= (Cardinality(followed) + 1) * Len(message_bytes) + 1)

\* the nested test message: six iterations, two pointers followed, success
C25_Witness ==
    /\ Returned
    /\ result.tag = "Ok"
    /\ ~revisited
    /\ message_bytes = NestedCompressedMessage
    /\ iterations = 6
    /\ followed = {13, 20}


(***************************************************************************)
(* Specification of concurrent decode calls: Header::try_from,             *)
(* Domain::try_from and parse_question calls on borrowed buffers, the      *)
(* steps of the calls interleaved in any order.                            *)
(***************************************************************************)
MaxCalls == 2

\* a header, a question, and a second question whose name is a pointer to
\* the first
SharedMessage ==
    MessageHeader \o WireLabel(LabelA) \o <<0>> \o <<0, 1, 0, 1>>
        \o WirePointer(HEADER_BYTES) \o <<0, 1, 0, 1>>
DomainText == LabelA \o <<LABEL_SEPARATOR>> \o LabelB1
LoopMessage == WirePointer(0)
ShortMessage == WireLabel(LabelA)
BufferPairs ==
    {<<SharedMessage, DomainText>>, <<SharedMessage, LoopMessage>>,
     <<ShortMessage, SharedMessage>>, <<DomainText, ShortMessage>>}
CallOffsets == {0, HEADER_BYTES, HEADER_BYTES + 7}
CallKinds == {"header", "domain", "question"}

\* a call before its first step: its arguments and its own locals
NewCall(kind, buf, o) ==
    [kind |-> kind,
     buf |-> buf,
     offset |-> IF kind = "question" THEN o ELSE 0,
     raw_labels |-> <<>>,
     s |-> [CallStart(o) EXCEPT
               !.pc = IF kind = "question" THEN "name" ELSE "call",
               !.question_pos = IF kind = "question" THEN o ELSE 0,
               !.pos = IF kind = "question" THEN o ELSE 0]]
NewCalls ==
    {NewCall(kind, buf, o) : kind \in CallKinds, buf \in 1..2, o \in CallOffsets}

InitInterleaved ==
    /\ buffers \in BufferPairs
    /\ calls \in [1..MaxCalls -> NewCalls]
    /\ WalkIdle
    /\ HeaderIdle
    /\ FlagsIdle
    /\ QuestionIdle
    /\ CodecIdle

\* every argument is a shared borrow: no step writes a buffer
InterleavedFrame ==
    UNCHANGED <<buffers, walk_vars, header_vars, flag_vars, question_vars,
                codec_vars>>

BufferOf(i) == buffers[calls[i].buf]
CallIs(i, kind, pc_now) ==
    calls[i].kind = kind /\ CallLocals(calls, i).pc = pc_now
LocalsBecome(i, s) == calls' = [calls EXCEPT ![i].s = s]

HeaderCall(i) ==
    /\ CallIs(i, "header", "call")
    /\ LocalsBecome(i, [CallLocals(calls, i) EXCEPT
                           !.pc = "done",
                           !.result = Header_try_from(BufferOf(i))])
    /\ InterleavedFrame

\* Domain::try_from up to the split of the input into slices of the buffer
DomainCallSplit(i) ==
    /\ CallIs(i, "domain", "call")
    /\ IF Len(BufferOf(i)) = 0
       THEN LocalsBecome(i, [CallLocals(calls, i) EXCEPT
                                !.pc = "done",
                                !.result = Err([kind |-> "DomainEmpty"])])
       ELSE calls' = [calls EXCEPT
                         ![i].raw_labels = split(BufferOf(i), LABEL_SEPARATOR),
                         ![i].s = [CallLocals(calls, i) EXCEPT !.pc = "collect"]]
    /\ InterleavedFrame

\* Domain::try_from from the map over the slices to the returned value
DomainCallCollect(i) ==
    /\ CallIs(i, "domain", "collect")
    /\ LocalsBecome(i, [CallLocals(calls, i) EXCEPT
                           !.pc = "done",
                           !.result =
                               collect([k \in 1..Len(calls[i].raw_labels) |->
                                           parse_label(calls[i].raw_labels[k])])])
    /\ InterleavedFrame

QuestionCallOutOfBounds(i) ==
    /\ CallIs(i, "question", "name")
    /\ ~InBounds(BufferOf(i), CallLocals(calls, i).pos)
    /\ LocalsBecome(i, Panicked(CallLocals(calls, i)))
    /\ InterleavedFrame

QuestionCallPointer(i) ==
    /\ CallIs(i, "question", "name")
    /\ InBounds(BufferOf(i), CallLocals(calls, i).pos)
    /\ is_pointer(At(BufferOf(i), CallLocals(calls, i).pos))
    /\ LocalsBecome(i, PointerStep(BufferOf(i), CallLocals(calls, i)))
    /\ InterleavedFrame

QuestionCallTerminator(i) ==
    /\ CallIs(i, "question", "name")
    /\ InBounds(BufferOf(i), CallLocals(calls, i).pos)
    /\ ~is_pointer(At(BufferOf(i), CallLocals(calls, i).pos))
    /\ At(BufferOf(i), CallLocals(calls, i).pos) = 0
    /\ LocalsBecome(i, TerminatorStep(BufferOf(i), CallLocals(calls, i)))
    /\ InterleavedFrame

QuestionCallLabel(i) ==
    /\ CallIs(i, "question", "name")
    /\ InBounds(BufferOf(i), CallLocals(calls, i).pos)
    /\ ~is_pointer(At(BufferOf(i), CallLocals(calls, i).pos))
    /\ At(BufferOf(i), CallLocals(calls, i).pos) # 0
    /\ Len(CallLocals(calls, i).q_name) < MaxNameLabels
    /\ LocalsBecome(i, LabelStep(BufferOf(i), CallLocals(calls, i)))
    /\ InterleavedFrame

QuestionCallFields(i) ==
    /\ CallIs(i, "question", "fields")
    /\ LocalsBecome(i, FieldsStep(BufferOf(i), CallLocals(calls, i)))
    /\ InterleavedFrame

NextInterleaved ==
    \E i \in 1..MaxCalls :
        \/ HeaderCall(i)
        \/ DomainCallSplit(i)
        \/ DomainCallCollect(i)
        \/ QuestionCallOutOfBounds(i)
        \/ QuestionCallPointer(i)
        \/ QuestionCallTerminator(i)
        \/ QuestionCallLabel(i)
        \/ QuestionCallFields(i)

SpecInterleaved == InitInterleaved /\ [][NextInterleaved]_vars

(***************************************************************************)
(* Independence of concurrent calls.                                       *)
(***************************************************************************)
MaxAloneSteps == 16

\* one step of a parse_question call that runs alone
QuestionStepAlone(b, s) ==
    IF s.pc = "fields" THEN FieldsStep(b, s)
    ELSE IF ~InBounds(b, s.pos) THEN Panicked(s)
    ELSE IF b[s.pos + 1] >= 192 THEN PointerStep(b, s)
    ELSE IF b[s.pos + 1] = 0 THEN TerminatorStep(b, s)
    ELSE LabelStep(b, s)

RECURSIVE RunAlone(_, _, _)
RunAlone(b, s, steps) ==
    IF s.pc = "done" \/ steps = 0 THEN s
    ELSE RunAlone(b, QuestionStepAlone(b, s), steps - 1)

\* what the call returns when nothing else runs
ResultAlone(b, c) ==
    CASE c.kind = "header" -> Header_try_from(b)
      [] c.kind = "domain" -> Domain_try_from(b)
      [] c.kind = "question" -> RunAlone(b, CallStart(c.offset), MaxAloneSteps).result

Finished(c) == c.s.pc = "done"

\* C21: when two or more decode calls run with their steps interleaved in
\* any order, on the same buffer or on different ones, no step of any call
\* changes a buffer, a step of one call changes nothing of another call, and
\* every call that returns returns what it returns when run alone.
C21_CallsIndependent ==
    /\ [][/\ buffers' = buffers
          /\ \A i, j \in 1..MaxCalls :
                (i # j /\ calls'[i] # calls[i]) => calls'[j] = calls[j]
         ]_vars
    /\ [](\A i \in DOMAIN calls :
             Finished(calls[i]) =>
                 calls[i].s.result = ResultAlone(buffers[calls[i].buf], calls[i]))

\* two parse_question calls on the one message, both returned: the question
\* at the header's end and the one that points back at it
C21_Witness ==
    /\ buffers[1] = SharedMessage
    /\ calls[1].kind = "question" /\ calls[1].buf = 1
    /\ calls[2].kind = "question" /\ calls[2].buf = 1
    /\ calls[1].offset = HEADER_BYTES
    /\ calls[2].offset = HEADER_BYTES + 7
    /\ Finished(calls[1]) /\ Finished(calls[2])
    /\ calls[1].s.result.tag = "Ok" /\ calls[1].s.result.val.bytes_read = 7
    /\ calls[2].s.result.tag = "Ok" /\ calls[2].s.result.val.bytes_read = 6
    /\ calls[1].s.result.val.question.q_name = <<LabelA>>
    /\ calls[2].s.result.val.question.q_name = <<LabelA>>

\* both calls are part-way through their loops at the same time
C21_WitnessMidway ==
    /\ buffers[1] = SharedMessage
    /\ calls[1].kind = "question" /\ calls[2].kind = "question"
    /\ calls[1].s.pc = "name" /\ calls[1].s.pos = HEADER_BYTES + 2
    /\ calls[2].s.pc = "name" /\ calls[2].s.pos = HEADER_BYTES + 2
    /\ calls[2].s.using_compression
    /\ ~calls[1].s.using_compression

====
